---------------------------- MODULE Spec2Model ----------------------------
(***************************************************************************)
(* A model of DFATPUNK/scraping-reddit:                                    *)
(*   src/scrape_reddit_agents.py  ("Strategy B": weighted 0..100 score,    *)
(*                                 search -> scrape -> dedup -> sort)      *)
(*   src/run.py                   ("Strategy A": keyword score, one thread)*)
(*                                                                         *)
(* Text is modelled as a sequence of characters.  An ASCII character is    *)
(* the one-character string; a non-ASCII character of the source is an     *)
(* atom with an ASCII name (E_ACUTE, EURO, ...).  Python's re module is    *)
(* modelled by a backtracking matcher over a pattern tree, so that the     *)
(* patterns below can be read side by side with the source's patterns.     *)
(*                                                                         *)
(* Amounts: Python floats are modelled as exact decimals [m, e] standing   *)
(* for m / 10^e; binary rounding of floats is not modelled.                *)
(***************************************************************************)
EXTENDS Integers, Sequences, FiniteSets, TLC

(***************************************************************************)
(*                                TEXT                                     *)
(***************************************************************************)

\* A string literal as a sequence of one-character strings.
Chars(str) == [i \in 1..Len(str) |-> SubSeq(str, i, i)]

\* Non-ASCII characters of the source, as atoms.
E_ACUTE == "e-acute"
E_ACUTE_UP == "E-ACUTE"
A_GRAVE == "a-grave"
E_GRAVE == "e-grave"
C_CEDILLA == "c-cedilla"
EURO == "euro"
POUND == "pound"
ALMOST_EQUAL == "almost-equal"
EN_DASH == "en-dash"
RSQUO == "right-single-quote"
DOT_ABOVE == "dot-above"
NEWLINE == "newline"

UpperLetters == {"A","B","C","D","E","F","G","H","I","J","K","L","M",
                 "N","O","P","Q","R","S","T","U","V","W","X","Y","Z"}
LowerLetters == {"a","b","c","d","e","f","g","h","i","j","k","l","m",
                 "n","o","p","q","r","s","t","u","v","w","x","y","z"}
Digits == {"0","1","2","3","4","5","6","7","8","9"}
Spaces == {" ", NEWLINE}
\* \w of a Python 3 str pattern: letters (accented ones too), digits, "_".
WordChars == UpperLetters \cup LowerLetters \cup Digits
             \cup {"_", E_ACUTE, E_ACUTE_UP, A_GRAVE, E_GRAVE, C_CEDILLA}

UpperSeq == Chars("ABCDEFGHIJKLMNOPQRSTUVWXYZ")
LowerSeq == Chars("abcdefghijklmnopqrstuvwxyz")

\* str.lower() on one character.
LowerCh(c) ==
    IF c \in UpperLetters
    THEN LowerSeq[CHOOSE i \in 1..26 : UpperSeq[i] = c]
    ELSE IF c = E_ACUTE_UP THEN E_ACUTE ELSE c

\* str.lower()
Lower(s) == [i \in 1..Len(s) |-> LowerCh(s[i])]

\* c in t  (substring test)
Contains(t, c) ==
    \E i \in 1..(Len(t) - Len(c) + 1) : SubSeq(t, i, i + Len(c) - 1) = c

\* t.find(c): the first index (1-based) of c in t, 0 when absent.
Find(t, c) ==
    IF Contains(t, c)
    THEN CHOOSE i \in 1..(Len(t) - Len(c) + 1) :
            /\ SubSeq(t, i, i + Len(c) - 1) = c
            /\ \A j \in 1..(i - 1) : SubSeq(t, j, j + Len(c) - 1) # c
    ELSE 0

\* t.rfind(c) for a single character c, 0 when absent.
RFindCh(t, c) ==
    IF \E i \in 1..Len(t) : t[i] = c
    THEN CHOOSE i \in 1..Len(t) : t[i] = c /\ \A j \in (i + 1)..Len(t) : t[j] # c
    ELSE 0

\* t.replace(c, r) for a single character c and a replacement sequence r.
RECURSIVE ReplaceCh(_, _, _)
ReplaceCh(t, c, r) ==
    IF t = <<>> THEN <<>>
    ELSE IF Len(t) = 1 THEN (IF t[1] = c THEN r ELSE t)
    ELSE LET mid == Len(t) \div 2
         IN  ReplaceCh(SubSeq(t, 1, mid), c, r) \o ReplaceCh(SubSeq(t, mid + 1, Len(t)), c, r)

\* t.strip(): leading and trailing whitespace removed.
RECURSIVE LStrip(_)
LStrip(t) == IF t # <<>> /\ Head(t) \in Spaces THEN LStrip(Tail(t)) ELSE t
RECURSIVE RStrip(_)
RStrip(t) ==
    IF t # <<>> /\ t[Len(t)] \in Spaces THEN RStrip(SubSeq(t, 1, Len(t) - 1)) ELSE t
Strip(t) == RStrip(LStrip(t))

\* Lexicographic order of two character sequences by code point; the
\* characters that occur in subreddit names and titles are ranked here.
CodeOrder == Chars(" 0123456789ABCDEFGHIJKLMNOPQRSTUVWXYZ_abcdefghijklmnopqrstuvwxyz")
Code(c) == IF \E i \in 1..Len(CodeOrder) : CodeOrder[i] = c
           THEN CHOOSE i \in 1..Len(CodeOrder) : CodeOrder[i] = c
           ELSE Len(CodeOrder) + 1
RECURSIVE StrLess(_, _)
StrLess(a, b) ==
    IF b = <<>> THEN FALSE
    ELSE IF a = <<>> THEN TRUE
    ELSE IF Code(Head(a)) # Code(Head(b)) THEN Code(Head(a)) < Code(Head(b))
    ELSE StrLess(Tail(a), Tail(b))

(***************************************************************************)
(*                      REGULAR EXPRESSIONS (re)                           *)
(***************************************************************************)

\* Pattern trees.
Lit(str) == [t |-> "lit", v |-> Chars(str)]
LitSeq(cs) == [t |-> "lit", v |-> cs]
Cls(set) == [t |-> "cls", v |-> set]
Cat(rs) == [t |-> "cat", v |-> rs]
Alt(rs) == [t |-> "alt", v |-> rs]
Opt(r) == [t |-> "rep", v |-> r, lo |-> 0, hi |-> 1]
Rep(r, lo, hi) == [t |-> "rep", v |-> r, lo |-> lo, hi |-> hi]
\* hi = -1: no upper limit (the count never reaches 0).
Star(r) == [t |-> "rep", v |-> r, lo |-> 0, hi |-> -1]
Plus(r) == [t |-> "rep", v |-> r, lo |-> 1, hi |-> -1]
Grp(name, r) == [t |-> "grp", v |-> r, name |-> name]
WB == [t |-> "wb"]
D == Cls(Digits)
WS == Cls(Spaces)

GroupNames == {"currency", "amount", "mult", "unit", "number", "suffix", "per"}
NoGroup == [st |-> 0, en |-> 0]
NoCaps == [g \in GroupNames |-> NoGroup]
NoMatch == [ok |-> FALSE, st |-> 0, en |-> 0, caps |-> NoCaps]

RepLeft(hi) == IF hi < 0 THEN hi ELSE hi - 1

IsWordAt(s, i) == i >= 1 /\ i <= Len(s) /\ s[i] \in WordChars

\* The backtracking matcher: k is the sequence of pattern nodes still to be
\* matched from position i of s (a continuation); greedy repetition and
\* ordered alternation take the first branch whose continuation succeeds,
\* as re does (the alternatives are tried in order, by halves).  The result
\* is the first successful match or NoMatch.
\* The length of the longest run of characters of set from position i of s,
\* at most hi of them when hi >= 0.
RunLen(s, i, set, hi) ==
    LET left == Len(s) - i + 1
        cap == IF hi >= 0 /\ hi < left THEN hi ELSE left
    IN  CHOOSE n \in 0..cap :
            /\ \A j \in i..(i + n - 1) : s[j] \in set
            /\ n = cap \/ s[i + n] \notin set

\* The backtracking matcher.  Res is the sequence of the ways the pattern
\* node matches s from position i, each [p: the position after the match,
\* caps: the groups], in the order re tries them: greedy repetition takes
\* the longer match first, alternation the earlier alternative.  ResAll
\* continues each of a sequence of matches with node, keeping the order.
\* The match re returns is the first of them.
RECURSIVE Res(_, _, _, _)
RECURSIVE ResAll(_, _, _)
ResAll(node, s, states) ==
    IF states = <<>> THEN <<>>
    ELSE IF Len(states) = 1 THEN Res(node, s, states[1].p, states[1].caps)
    ELSE LET mid == Len(states) \div 2
         IN  ResAll(node, s, SubSeq(states, 1, mid))
             \o ResAll(node, s, SubSeq(states, mid + 1, Len(states)))

Res(node, s, i, caps) ==
    CASE node.t = "lit" ->
           IF i + Len(node.v) - 1 <= Len(s) /\ SubSeq(s, i, i + Len(node.v) - 1) = node.v
           THEN <<[p |-> i + Len(node.v), caps |-> caps]>>
           ELSE <<>>
      [] node.t = "cls" ->
           IF i <= Len(s) /\ s[i] \in node.v THEN <<[p |-> i + 1, caps |-> caps]>> ELSE <<>>
      [] node.t = "wb" ->
           IF IsWordAt(s, i - 1) # IsWordAt(s, i) THEN <<[p |-> i, caps |-> caps]>> ELSE <<>>
      [] node.t = "cat" ->
           IF node.v = <<>> THEN <<[p |-> i, caps |-> caps]>>
           ELSE IF Len(node.v) = 1 THEN Res(node.v[1], s, i, caps)
           ELSE LET mid == Len(node.v) \div 2
                IN  ResAll(Cat(SubSeq(node.v, mid + 1, Len(node.v))), s,
                           Res(Cat(SubSeq(node.v, 1, mid)), s, i, caps))
      [] node.t = "alt" ->
           IF node.v = <<>> THEN <<>>
           ELSE IF Len(node.v) = 1 THEN Res(node.v[1], s, i, caps)
           ELSE LET mid == Len(node.v) \div 2
                IN  Res(Alt(SubSeq(node.v, 1, mid)), s, i, caps)
                    \o Res(Alt(SubSeq(node.v, mid + 1, Len(node.v))), s, i, caps)
      [] node.t = "rep" ->
           IF node.hi = 0 THEN <<[p |-> i, caps |-> caps]>>
           ELSE IF node.v.t = "cls"
           THEN LET n == RunLen(s, i, node.v.v, node.hi)
                IN  IF n < node.lo THEN <<>>
                    ELSE [j \in 1..(n - node.lo + 1) |->
                             [p |-> i + n - j + 1, caps |-> caps]]
           ELSE LET one == Res(node.v, s, i, caps)
                    \* an unbounded repetition goes on only after a non-empty match
                    on == IF node.hi = 1 THEN one ELSE SelectSeq(one, LAMBDA x : x.p > i)
                    lo == IF node.lo > 0 THEN node.lo - 1 ELSE 0
                IN  ResAll(Rep(node.v, lo, RepLeft(node.hi)), s, on)
                    \o (IF node.lo <= 0 THEN <<[p |-> i, caps |-> caps]>> ELSE <<>>)
      [] node.t = "grp" ->
           LET inner == Res(node.v, s, i, caps)
           IN  [j \in 1..Len(inner) |->
                  [p |-> inner[j].p,
                   caps |-> [inner[j].caps EXCEPT
                               ![node.name] = [st |-> i, en |-> inner[j].p - 1]]]]

\* pattern.match at position i.
MatchAt(re, s, i) ==
    LET r == Res(re, s, i, NoCaps)
    IN  IF Len(r) = 0 THEN NoMatch
        ELSE [ok |-> TRUE, st |-> i, en |-> r[1].p - 1, caps |-> r[1].caps]

\* pattern.search(s) from position i on: the leftmost match.
\* The match at the least start position of lo..hi that has one.
RECURSIVE SearchIn(_, _, _, _)
SearchIn(re, s, lo, hi) ==
    IF lo > hi THEN NoMatch
    ELSE IF lo = hi THEN (LET a == MatchAt(re, s, lo) IN IF a.ok THEN a ELSE NoMatch)
    ELSE LET mid == (lo + hi) \div 2
             a == SearchIn(re, s, lo, mid)
         IN  IF a.ok THEN a ELSE SearchIn(re, s, mid + 1, hi)
SearchFrom(re, s, i) == SearchIn(re, s, i, Len(s) + 1)
Search(re, s) == SearchFrom(re, s, 1)

\* The element of a one-element set; TheOne({ e(x) : x \in {v} }) is e(v)
\* with v computed once.
TheOne(S) == CHOOSE x \in S : TRUE

\* pattern.finditer(s): the successive non-overlapping matches.
RECURSIVE FindIterFrom(_, _, _)
FindIterFrom(re, s, i) ==
    TheOne({ IF ~a.ok THEN <<>>
             ELSE <<a>> \o FindIterFrom(re, s, IF a.en < a.st THEN a.st + 1 ELSE a.en + 1) :
             a \in {SearchFrom(re, s, i)} })
FindIter(re, s) == FindIterFrom(re, s, 1)

\* m.group(0) and m.group(name); None is modelled as a one-element sequence
\* whose element is no character, so it differs from every text.
None == <<"None">>
Group0(s, m) == SubSeq(s, m.st, m.en)
GroupOf(s, m, name) ==
    IF m.caps[name].st = 0 THEN None
    ELSE SubSeq(s, m.caps[name].st, m.caps[name].en)
\* (x or "")
OrEmpty(x) == IF x = None THEN <<>> ELSE x


(***************************************************************************)
(*                 PATTERNS AND VOCABULARIES OF THE SOURCE                 *)
(***************************************************************************)

Sep == Cls({".", ","})
\* \d{1,3}(?:[.,]\d{3})*(?:[.,]\d+)?|\d+(?:[.,]\d+)?
NumberPattern ==
    Alt(<< Cat(<< Rep(D, 1, 3), Star(Cat(<<Sep, Rep(D, 3, 3)>>)),
                  Opt(Cat(<<Sep, Plus(D)>>)) >>),
           Cat(<< Plus(D), Opt(Cat(<<Sep, Plus(D)>>)) >>) >>)

\* scrape_reddit_agents.py
REVENUE_PATTERNS ==
    Cat(<< Grp("currency", Opt(Cls({"$", EURO, POUND}))), Star(WS),
           Grp("amount", NumberPattern),
           Star(WS), Opt(Grp("mult", Cls({"k", "K", "m", "M"}))),
           Star(WS),
           Opt(Grp("unit",
               Cat(<< Opt(Alt(<< Lit("/"), Cat(<<WB, Lit("per"), Plus(WS)>>), Lit("p/") >>)),
                      Star(WS),
                      Alt(<< Cat(<<Lit("d"), Opt(Lit("ay"))>>), Lit("jour"), Lit("j"),
                             Cat(<<Lit("w"), Opt(Alt(<<Lit("k"), Lit("eek")>>))>>),
                             Lit("semaine"), Lit("sem"),
                             Cat(<<Lit("mo"), Opt(Lit("nth"))>>), Lit("month"),
                             Lit("mois"), Lit("m"),
                             Cat(<<Lit("y"), Opt(Alt(<<Lit("r"), Lit("ear")>>))>>),
                             Lit("an"),
                             LitSeq(Chars("ann") \o <<E_ACUTE>> \o Chars("e")),
                             Lit("ans") >>) >>))) >>)

\* run.py
RE_MONEY ==
    Cat(<< Opt(Cat(<<Grp("currency", Cls({"$", EURO, POUND})), Star(WS)>>)),
           Grp("number", NumberPattern),
           Star(WS),
           Opt(Grp("suffix", Alt(<< Cls({"k", "K", "m", "M", "b", "B"}), Lit("million"),
                                    Lit("millions"), Lit("thousand"), Lit("k") >>))),
           Star(WS),
           Opt(Grp("per",
               Cat(<< Lit("/"), Star(WS),
                      Alt(<< Lit("h"), Lit("hr"), Lit("hour"), Lit("day"), Lit("week"),
                             Lit("mo"), Lit("month"), Lit("yr"), Lit("year"),
                             Cat(<< Lit("per"), Star(WS),
                                    Alt(<< Lit("hour"), Lit("day"), Lit("week"),
                                           Lit("month"), Lit("year") >>) >>) >>) >>))) >>)

\* RANGE_PATTERN: \b\d+(?:[.,]?\d+)?\s*[-(en dash)]\s*\d+(?:[.,]?\d+)?\b
RangeNumber == Cat(<< Plus(D), Opt(Cat(<<Opt(Sep), Plus(D)>>)) >>)
RANGE_PATTERN ==
    Cat(<< WB, RangeNumber, Star(WS), Cls({"-", EN_DASH}), Star(WS), RangeNumber, WB >>)

\* \b[A-Z][A-Za-z0-9&.\-]{2,}\b(?:\s(?:Inc|LLC|Ltd|SAS|GmbH|SARL|AG)\b)
COMPANY_PATTERN ==
    Cat(<< WB, Cls(UpperLetters),
           Rep(Cls(UpperLetters \cup LowerLetters \cup Digits \cup {"&", ".", "-"}), 2, -1),
           WB, WS,
           Alt(<< Lit("Inc"), Lit("LLC"), Lit("Ltd"), Lit("SAS"), Lit("GmbH"),
                  Lit("SARL"), Lit("AG") >>),
           WB >>)

CURRENCY_CODES == { Chars("eur"), Chars("usd"), Chars("gbp"), <<EURO>>, <<"$">>, <<POUND>> }

SERVICE_CUES ==
    { Chars("openai"), Chars("assistants api"), Chars("gpt-4"), Chars("gpt-4o"),
      Chars("anthropic"), Chars("claude"), Chars("cohere"), Chars("langchain"),
      Chars("llamaindex"), Chars("crewai"), Chars("autogen"), Chars("openagents"),
      Chars("flowise"), Chars("n8n"), Chars("zapier"), Chars("make.com"),
      Chars("make (integromat)"), Chars("relevance ai"), Chars("agentops"),
      Chars("vercel ai sdk"), Chars("modal"), Chars("bedrock"), Chars("vertex ai"),
      Chars("hugging face"), Chars("groq"), Chars("ollama") }

NICHE_PIVOTS ==
    << Chars("for "), Chars("pour "), Chars("to help "), Chars("serving "),
       Chars("targeting "), Chars("for helping "), Chars("aider "),
       Chars("aupr") \o <<E_GRAVE>> \o Chars("s des "), Chars("with ") >>

SUCCESS_CUES ==
    { Chars("paying customer"), Chars("paying customers"), Chars("mrr"), Chars("arr"),
      Chars("profitable"), Chars("sold"), Chars("closed"), Chars("booked"),
      Chars("recurring"), Chars("retain"), Chars("retainer"), Chars("works well"),
      Chars("working well"), Chars("it works"), Chars("fonctionne"),
      <<C_CEDILLA>> \o Chars("a marche"), Chars("clients payent"),
      Chars("clients payants") }

DOUBT_CUES ==
    { Chars("anyone making"), Chars("anyone here"), Chars("how to"), Chars("question"),
      Chars("help"), Chars("struggling"), Chars("trying"), Chars("explore"),
      Chars("exploring"), Chars("idea"), Chars("id") \o <<E_ACUTE>> \o Chars("e"),
      Chars("en cours"), Chars("h") \o <<E_ACUTE>> \o Chars("site"), Chars("tester"),
      Chars("tests"), Chars("proof of concept"), Chars("poc") }

FAIL_CUES ==
    { Chars("failed"), Chars("no sales"), Chars("can't monetize"),
      Chars("cannot monetize"), Chars("didn't sell"), Chars("aucune vente"),
      Chars("pas de vente"),
      Chars("impossible ") \o <<A_GRAVE>> \o Chars(" mon") \o <<E_ACUTE>> \o Chars("tiser"),
      <<E_ACUTE>> \o Chars("chec") }

APPROX_CUES ==
    { <<"~">>, <<ALMOST_EQUAL>>, Chars("about"), Chars("around"), Chars("approx"),
      Chars("approximately"), Chars("environ"), Chars("roughly"), Chars("presque") }

CLIENT_CUES ==
    { Chars("client"), Chars("customer"), Chars("customers"), Chars("clients"),
      Chars("smb"), Chars("realtor"), Chars("realtors"), Chars("law firm"),
      Chars("lawyer"), Chars("attorney"), Chars("restaurant"), Chars("ecom"),
      Chars("saas"), Chars("agency"), Chars("agencies") }

(***************************************************************************)
(*                          DECIMAL AMOUNTS                                *)
(***************************************************************************)

RECURSIVE Pow10(_)
Pow10(n) == IF n = 0 THEN 1 ELSE 10 * Pow10(n - 1)

\* The decimal m / 10^e without trailing zeros in the fraction.
RECURSIVE Dec(_, _)
Dec(m, e) == IF e > 0 /\ m % 10 = 0 THEN Dec(m \div 10, e - 1) ELSE [m |-> m, e |-> e]

DecInt(n) == [m |-> n, e |-> 0]
DecTimes(d, n) == Dec(d.m * n, d.e)
DecLess(a, b) == a.m * Pow10(b.e) < b.m * Pow10(a.e)
DecIsInteger(d) == d.e = 0

DigitSeq == Chars("0123456789")
DigitVal(c) == (CHOOSE i \in 1..10 : DigitSeq[i] = c) - 1

RECURSIVE DigitsVal(_)
DigitsVal(ds) ==
    IF ds = <<>> THEN 0 ELSE DigitsVal(SubSeq(ds, 1, Len(ds) - 1)) * 10 + DigitVal(ds[Len(ds)])

\* None where a float is expected (no decimal has e < 0).
NoneFloat == [m |-> 0, e |-> -1]

\* float(s) for a text of digits, "." and ",": NoneFloat for what float()
\* rejects (ValueError), here: no digit, a character that is no digit or ".",
\* or two ".".
Float(s) ==
    LET dots == {i \in 1..Len(s) : s[i] = "."}
    IN  IF \/ \E i \in 1..Len(s) : s[i] \notin Digits \cup {"."}
           \/ Cardinality(dots) > 1
           \/ \A i \in 1..Len(s) : s[i] \notin Digits
        THEN NoneFloat
        ELSE IF dots = {} THEN DecInt(DigitsVal(s))
        ELSE LET d == CHOOSE i \in dots : TRUE
             IN  Dec(DigitsVal(SubSeq(s, 1, d - 1) \o SubSeq(s, d + 1, Len(s))), Len(s) - d)

(***************************************************************************)
(*             STRATEGY B: scrape_reddit_agents.py, pure part              *)
(***************************************************************************)

CURRENCY_MAP(sym) ==
    CASE sym = <<EURO>> -> Chars("EUR")
      [] sym = <<"$">> -> Chars("USD")
      [] sym = <<POUND>> -> Chars("GBP")
      [] OTHER -> None

\* re.sub(r"[.,]", "", t)
StripSeparators(t) == ReplaceCh(ReplaceCh(t, ".", <<>>), ",", <<>>)

_to_float_amount(amount_str) ==
    IF amount_str = <<>> THEN NoneFloat
    ELSE
    LET s0 == ReplaceCh(ReplaceCh(ReplaceCh(Strip(amount_str), " ", <<>>),
                                  RSQUO, <<>>), DOT_ABOVE, <<".">>)
        both == Contains(s0, <<",">>) /\ Contains(s0, <<".">>)
        last == IF RFindCh(s0, ",") > RFindCh(s0, ".")
                THEN RFindCh(s0, ",") ELSE RFindCh(s0, ".")
        s1 == IF both
              THEN StripSeparators(SubSeq(s0, 1, last - 1)) \o <<".">>
                   \o SubSeq(s0, last + 1, Len(s0))
              ELSE IF Contains(s0, <<",">>) /\ ~Contains(s0, <<".">>)
              THEN ReplaceCh(s0, ",", <<".">>)
              ELSE s0
    IN  Float(s1)

AnyIn(text, cues) == \E c \in cues : Contains(text, c)

\* normalize_revenue(m), m a match of REVENUE_PATTERNS in body:
\* (amount, currency, period, original)
normalize_revenue(body, m) ==
    LET original == Strip(Group0(body, m))
        currency_sym == OrEmpty(GroupOf(body, m, "currency"))
        currency == IF currency_sym # <<>> THEN CURRENCY_MAP(currency_sym) ELSE None
        amount_raw == Strip(OrEmpty(GroupOf(body, m, "amount")))
        amount == _to_float_amount(amount_raw)
        mult == Lower(OrEmpty(GroupOf(body, m, "mult")))
        unit == ReplaceCh(Lower(OrEmpty(GroupOf(body, m, "unit"))), " ", <<>>)
        scaled == IF mult = <<"k">> THEN DecTimes(amount, 1000)
                  ELSE IF mult = <<"m">> THEN DecTimes(amount, 1000000)
                  ELSE amount
        period ==
            IF AnyIn(unit, {Chars("mo"), Chars("month"), Chars("mois"), Chars("/m")})
            THEN Chars("month")
            ELSE IF AnyIn(unit, {Chars("wk"), Chars("w"), Chars("week"),
                                 Chars("semaine"), Chars("sem")})
            THEN Chars("week")
            ELSE IF AnyIn(unit, {Chars("d"), Chars("day"), Chars("jour"), Chars("j")})
            THEN Chars("day")
            ELSE IF AnyIn(unit, {Chars("yr"), Chars("y"), Chars("year"), Chars("an"),
                                 Chars("ann") \o <<E_ACUTE>> \o Chars("e"), Chars("ans")})
            THEN Chars("year")
            ELSE None
    IN  IF amount = NoneFloat
        THEN [amount |-> NoneFloat, currency |-> currency, period |-> None,
              original |-> original]
        ELSE [amount |-> scaled, currency |-> currency, period |-> period,
              original |-> original]

\* text.split(): the maximal runs of non-whitespace characters.
RECURSIVE Split(_)
Split(t) ==
    LET u == LStrip(t)
    IN  IF u = <<>> THEN <<>>
        ELSE LET n == IF \E i \in 1..Len(u) : u[i] \in Spaces
                      THEN (CHOOSE i \in 1..Len(u) :
                                u[i] \in Spaces /\ \A j \in 1..(i - 1) : u[j] \notin Spaces) - 1
                      ELSE Len(u)
             IN  <<SubSeq(u, 1, n)>> \o Split(SubSeq(u, n + 1, Len(u)))

\* " ".join(words)
RECURSIVE Join(_)
Join(words) ==
    IF words = <<>> THEN <<>>
    ELSE IF Len(words) = 1 THEN words[1]
    ELSE words[1] \o <<" ">> \o Join(Tail(words))

SnippetStops == {".", "?", "!", ";", ":", "(", ")", "[", "]", "{", "}", "|", "/", "\\"}

\* re.split(r"[.?!;:()\[\]{}|/\\]", t)[0]
BeforeStop(t) ==
    IF \E i \in 1..Len(t) : t[i] \in SnippetStops
    THEN SubSeq(t, 1, (CHOOSE i \in 1..Len(t) :
                          t[i] \in SnippetStops
                          /\ \A j \in 1..(i - 1) : t[j] \notin SnippetStops) - 1)
    ELSE t

FirstWords(words, n) == SubSeq(words, 1, IF Len(words) < n THEN Len(words) ELSE n)

RECURSIVE find_niche_from(_, _)
find_niche_from(t, k) ==
    IF k > Len(NICHE_PIVOTS) THEN <<>>
    ELSE LET p == NICHE_PIVOTS[k]
             idx == Find(Lower(t), <<" ">> \o p)
         IN  IF idx # 0
             THEN Strip(BeforeStop(Join(FirstWords(
                        Split(SubSeq(t, idx + 1 + Len(p), Len(t))), 12))))
             ELSE find_niche_from(t, k + 1)

find_niche(text) ==
    find_niche_from(<<" ">> \o ReplaceCh(text, NEWLINE, <<" ">>) \o <<" ">>, 1)

_text_has_any(text, cues) == AnyIn(Lower(text), cues)

_has_currency_code(text) == AnyIn(Lower(text), CURRENCY_CODES)

_detect_period(unit_text, full_text) ==
    LET u == Lower(OrEmpty(unit_text))
        ft == Lower(full_text)
    IN  IF \/ AnyIn(u, {Chars("d"), Chars("day"), Chars("jour"), Chars("j")})
           \/ AnyIn(ft, {Chars(" per day"), Chars("/d"), Chars("par jour")})
        THEN Chars("day")
        ELSE IF \/ AnyIn(u, {Chars("wk"), Chars("w"), Chars("week"), Chars("semaine"),
                             Chars("sem")})
                \/ AnyIn(ft, {Chars(" per week"), Chars("/wk"), Chars("/w"),
                              Chars("par semaine")})
        THEN Chars("week")
        ELSE IF \/ AnyIn(u, {Chars("mo"), Chars("month"), Chars("mois"), Chars("m")})
                \/ AnyIn(ft, {Chars(" per month"), Chars("/mo"), Chars("/m"),
                              Chars("par mois")})
        THEN Chars("month")
        ELSE IF \/ AnyIn(u, {Chars("yr"), Chars("y"), Chars("year"), Chars("an"),
                             Chars("ann") \o <<E_ACUTE>> \o Chars("e"), Chars("ans")})
                \/ AnyIn(ft, {Chars(" per year"), Chars("/yr"), Chars("/y"),
                              Chars("par an"),
                              Chars("par ann") \o <<E_ACUTE>> \o Chars("e")})
        THEN Chars("year")
        ELSE None

_precision_points(body, rev_text) ==
    LET approx == _text_has_any(rev_text, APPROX_CUES) \/ _text_has_any(body, APPROX_CUES)
        ranged == Search(RANGE_PATTERN, rev_text).ok \/ Search(RANGE_PATTERN, body).ok
    IN  IF approx \/ ranged THEN 5 ELSE 10

_period_points(period) ==
    IF period = Chars("week") THEN 15
    ELSE IF period = Chars("month") THEN 15
    ELSE IF period = Chars("day") THEN 15
    ELSE IF period = Chars("year") THEN 15
    ELSE IF period # None /\ period # <<>> THEN 5 ELSE 0

_market_points(body) ==
    LET has_niche == find_niche(body) # <<>>
        named == _text_has_any(body, CLIENT_CUES) \/ Search(COMPANY_PATTERN, body).ok
    IN  (IF has_niche THEN 10 ELSE 0) + (IF named THEN 10 ELSE 0)

Min(a, b) == IF a < b THEN a ELSE b
Max(a, b) == IF a > b THEN a ELSE b

_stack_points(body, title) ==
    LET merged == Lower(body \o <<" ">> \o title)
        hits == {c \in SERVICE_CUES : Contains(merged, c)}
    IN  Min(15, 3 * Cardinality(hits))

\* _sentiment_points without its default: a body without any cue counts
\* as one with a doubt cue.
_sentiment_points_no_default(body) ==
    LET t == Lower(body)
    IN  IF _text_has_any(t, FAIL_CUES) THEN -999
        ELSE IF _text_has_any(t, SUCCESS_CUES) THEN 10
        ELSE 5

\* _sentiment_points looking the cues up in the body as written.
_sentiment_points_as_written(body) ==
    IF AnyIn(body, FAIL_CUES) THEN -999
    ELSE IF AnyIn(body, SUCCESS_CUES) THEN 10
    ELSE IF AnyIn(body, DOUBT_CUES) THEN 5
    ELSE 7

_sentiment_points(body) ==
    LET t == Lower(body)
    IN  IF _text_has_any(t, FAIL_CUES) THEN -999
        ELSE IF _text_has_any(t, SUCCESS_CUES) THEN 10
        ELSE IF _text_has_any(t, DOUBT_CUES) THEN 5
        ELSE 7

\* compute_score_v2 as the plain sum of its parts.
compute_score_v2_sum(body, submission_title, rev_text, currency, unit) ==
    25 + (IF currency # None \/ _has_currency_code(body) THEN 5 ELSE 0)
       + _period_points(_detect_period(unit, body))
       + _precision_points(body, rev_text)
       + _market_points(body) + _stack_points(body, submission_title)
       + _sentiment_points(body)

\* compute_score_v2(body, submission_title, rev_match, currency, unit); of
\* rev_match only group(0) is read, passed here as rev_text.
compute_score_v2(body, submission_title, rev_text, currency, unit) ==
    LET base == 25
        currency_pts == IF currency # None \/ _has_currency_code(body) THEN 5 ELSE 0
        period == _detect_period(unit, body)
        period_pts == _period_points(period)
        precision_pts == _precision_points(body, rev_text)
        revenue_pts == base + currency_pts + period_pts + precision_pts
        market_pts == _market_points(body)
        stack_pts == _stack_points(body, submission_title)
        sent == _sentiment_points(body)
        total == revenue_pts + market_pts + stack_pts + sent
    IN  IF sent < 0 THEN 0 ELSE Max(0, Min(100, total))

(***************************************************************************)
(*                     STRATEGY A: run.py, pure part                       *)
(***************************************************************************)

Number14 == Cat(<< Rep(D, 1, 4), Opt(Cat(<<Sep, Plus(D)>>)) >>)
\* Literal with an optional trailing "s", as in hours?
LitS(str) == Cat(<<Lit(str), Opt(Lit("s"))>>)

\* \b\d{1,4}(?:[.,]\d+)?\s*(?:hours?|hrs?|h|days?|d|weeks?|w|months?|mos?|mo|years?|yrs?)\b
RE_DURATION ==
    Cat(<< WB, Number14, Star(WS),
           Alt(<< LitS("hour"), LitS("hr"), Lit("h"), LitS("day"), Lit("d"), LitS("week"),
                  Lit("w"), LitS("month"), LitS("mo"), Lit("mo"), LitS("year"),
                  LitS("yr") >>),
           WB >>)

\* \b\d{1,4}(?:[.,]\d+)?\s*(?:per|/)\s*(?:hour|hr|day|week|month|mo|year|yr)s?\b
RE_RATE ==
    Cat(<< WB, Number14, Star(WS), Alt(<<Lit("per"), Lit("/")>>), Star(WS),
           Alt(<< Lit("hour"), Lit("hr"), Lit("day"), Lit("week"), Lit("month"),
                  Lit("mo"), Lit("year"), Lit("yr") >>),
           Opt(Lit("s")), WB >>)

\* \b\d{1,4}\s*(?:clients?|customers?|users?|leads?|emails?|meetings?|calls?|tickets?|demos?)\b
RE_COUNT ==
    Cat(<< WB, Rep(D, 1, 4), Star(WS),
           Alt(<< LitS("client"), LitS("customer"), LitS("user"), LitS("lead"),
                  LitS("email"), LitS("meeting"), LitS("call"), LitS("ticket"),
                  LitS("demo") >>),
           WB >>)

\* \b\d{1,3}(?:[.,]\d+)?\s*%\b
RE_PERCENT ==
    Cat(<< WB, Rep(D, 1, 3), Opt(Cat(<<Sep, Plus(D)>>)), Star(WS), Lit("%"), WB >>)

KEYWORDS_SELL ==
    { Chars("client"), Chars("clients"), Chars("customer"), Chars("customers"),
      Chars("sold"), Chars("selling"), Chars("sell"), Chars("paying"), Chars("paid"),
      Chars("charge"), Chars("charged"), Chars("pricing"), Chars("price"),
      Chars("subscription"), Chars("contract"), Chars("invoice"), Chars("retainer"),
      Chars("freelance"), Chars("agency"), Chars("MRR"), Chars("ARR") }

KEYWORDS_AGENT ==
    { Chars("agent"), Chars("ai agent"), Chars("automation"), Chars("autonomous"),
      Chars("bot"), Chars("assistant"), Chars("workflow"), Chars("rpa"), Chars("gpt"),
      Chars("langchain"), Chars("autogen") }

MARKET_HINTS ==
    << Chars("ecom"), Chars("e-commerce"), Chars("shopify"), Chars("woocommerce"),
       Chars("amazon seller"), Chars("smb"), Chars("dentists"), Chars("lawyers"),
       Chars("real estate"), Chars("realtors"), Chars("restaurants"), Chars("plumbers"),
       Chars("roofers"), Chars("contractors"), Chars("saas"), Chars("startups"),
       Chars("enterprise"), Chars("agencies"), Chars("healthcare"), Chars("doctors"),
       Chars("clinics"), Chars("education"), Chars("coaches"), Chars("course creators"),
       Chars("marketing"), Chars("sales"), Chars("support"), Chars("customer support"),
       Chars("helpdesk"), Chars("hotel"), Chars("hospitality"), Chars("travel"),
       Chars("logistics") >>

NARRATIVE_CUES ==
    { Chars(" we "), Chars(" i "), Chars(" my "), Chars(" our "), Chars("case study"),
      Chars("story") }

\* [m.group(0) for m in pattern.finditer(text)]
Spans(re, text) ==
    TheOne({ [i \in 1..Len(ms) |-> Group0(text, ms[i])] : ms \in {FindIter(re, text)} })
\* The same for a pattern compiled with re.I (the patterns are lower case).
SpansI(re, text) ==
    TheOne({ [i \in 1..Len(ms) |-> Group0(text, ms[i])] : ms \in {FindIter(re, Lower(text))} })

has_quantitative(text) ==
    TheOne({ [any_num |-> money # <<>> \/ duration # <<>> \/ rate # <<>> \/ count # <<>>
                          \/ percent # <<>>,
              money |-> money, duration |-> duration, rate |-> rate, count |-> count,
              percent |-> percent] :
             money \in {Spans(RE_MONEY, text)},
             duration \in {SpansI(RE_DURATION, text)},
             rate \in {SpansI(RE_RATE, text)},
             count \in {SpansI(RE_COUNT, text)},
             percent \in {Spans(RE_PERCENT, text)} })

\* [x for x in xs if x in text]
RECURSIVE FoundIn(_, _)
FoundIn(xs, text) ==
    IF xs = <<>> THEN <<>>
    ELSE (IF Contains(text, Head(xs)) THEN <<Head(xs)>> ELSE <<>>) \o FoundIn(Tail(xs), text)

score_comment(body) ==
    TheOne(UNION {
      { [score |-> (IF AnyIn(text, KEYWORDS_SELL) THEN 2 ELSE 0)
                   + (IF AnyIn(text, KEYWORDS_AGENT) THEN 2 ELSE 0)
                   + (IF money_spans # <<>> THEN Min(3, Len(money_spans)) ELSE 0)
                   + (IF markets # <<>> THEN 1 ELSE 0)
                   + (IF AnyIn(text, NARRATIVE_CUES) THEN 1 ELSE 0),
         money_spans |-> money_spans,
         markets_found |-> markets] :
        money_spans \in {Spans(RE_MONEY, text)},
        markets \in {FoundIn(MARKET_HINTS, text)} } :
      text \in {Lower(body)} })

RECURSIVE NatToChars(_)
NatToChars(n) ==
    IF n < 10 THEN <<DigitSeq[n + 1]>> ELSE NatToChars(n \div 10) \o <<DigitSeq[(n % 10) + 1]>>

\* round(val, 2), to the nearest, ties to even, on the exact decimal.
Round2(d) ==
    IF d.e <= 2 THEN d
    ELSE LET p == Pow10(d.e - 2)
             q == d.m \div p
             r == d.m % p
             up == 2 * r > p \/ (2 * r = p /\ q % 2 = 1)
         IN  Dec(IF up THEN q + 1 ELSE q, 2)

RECURSIVE Zeros(_)
Zeros(n) == IF n <= 0 THEN <<>> ELSE <<"0">> \o Zeros(n - 1)

\* str() of a float: the integer part, ".", and the fraction (".0" when none).
FloatStr(d) ==
    IF d.e = 0 THEN NatToChars(d.m) \o Chars(".0")
    ELSE LET p == Pow10(d.e)
             frac == NatToChars(d.m % p)
         IN  NatToChars(d.m \div p) \o <<".">> \o Zeros(d.e - Len(frac)) \o frac

\* f"{int(val) if float(val).is_integer() else round(val, 2)}"
FormatVal(val) == IF DecIsInteger(val) THEN NatToChars(val.m) ELSE FloatStr(Round2(val))

StartsWith(t, c) == Len(t) >= Len(c) /\ SubSeq(t, 1, Len(c)) = c

\* The magnitude suffix applied to val: run.py lines 180-183 and 204-207.
ApplySuffix(val, suffix) ==
    IF suffix # None /\ suffix # <<>> /\ StartsWith(Lower(suffix), <<"m">>)
    THEN DecTimes(val, 1000000)
    ELSE IF suffix # None /\ suffix # <<>>
            /\ (StartsWith(Lower(suffix), <<"k">>) \/ Contains(Lower(suffix), Chars("thousand")))
    THEN DecTimes(val, 1000)
    ELSE val

\* m.group("number").replace(",", "").replace(" ", "")
NumberText(text, m) ==
    ReplaceCh(ReplaceCh(GroupOf(text, m, "number"), ",", <<>>), " ", <<>>)

normalize_money(token) ==
    LET text == Lower(token)
        m == Search(RE_MONEY, text)
        val == Float(NumberText(text, m))
        suffix == GroupOf(text, m, "suffix")
        currency == OrEmpty(GroupOf(text, m, "currency"))
        per == GroupOf(text, m, "per")
        base == currency \o FormatVal(ApplySuffix(val, suffix))
    IN  IF ~m.ok THEN None
        ELSE IF val = NoneFloat THEN token
        ELSE IF per # None /\ per # <<>>
        THEN base \o <<" ">> \o Strip(ReplaceCh(per, "/", <<>>))
        ELSE base

\* The loop of extract_best_money over money_spans[k..]: (best, best_val).
RECURSIVE best_money_loop(_, _, _, _)
best_money_loop(money_spans, k, best, best_val) ==
    IF k > Len(money_spans) THEN [best |-> best, best_val |-> best_val]
    ELSE LET tok == money_spans[k]
             text == Lower(tok)
             m == Search(RE_MONEY, text)
             num == Float(NumberText(text, m))
             val == ApplySuffix(num, GroupOf(text, m, "suffix"))
         IN  IF ~m.ok THEN best_money_loop(money_spans, k + 1, best, best_val)
             ELSE IF num = NoneFloat THEN best_money_loop(money_spans, k + 1, best, best_val)
             ELSE IF DecLess(best_val, val)
             THEN best_money_loop(money_spans, k + 1, tok, val)
             ELSE best_money_loop(money_spans, k + 1, best, best_val)

extract_best_money(money_spans) ==
    IF money_spans = <<>> THEN None
    ELSE LET r == best_money_loop(money_spans, 1, None, DecInt(-1))
         IN  IF r.best # None /\ r.best # <<>> THEN normalize_money(r.best) ELSE None

(***************************************************************************)
(*                      STRATEGY A: run.py, main                           *)
(***************************************************************************)

\* html.unescape, for the character references the bodies of the model use.
Entities ==
    { [ref |-> Chars("&amp;"), ch |-> "&"], [ref |-> Chars("&lt;"), ch |-> "<"],
      [ref |-> Chars("&gt;"), ch |-> ">"], [ref |-> Chars("&quot;"), ch |-> "\""],
      [ref |-> Chars("&#39;"), ch |-> "'"] }
EntityAt(t, i) ==
    {e \in Entities : i + Len(e.ref) - 1 <= Len(t) /\ SubSeq(t, i, i + Len(e.ref) - 1) = e.ref}
RECURSIVE Unescape(_)
Unescape(t) ==
    IF \A i \in 1..Len(t) : EntityAt(t, i) = {} THEN t
    ELSE LET i == CHOOSE k \in 1..Len(t) :
                     EntityAt(t, k) # {} /\ \A j \in 1..(k - 1) : EntityAt(t, j) = {}
             e == CHOOSE x \in EntityAt(t, i) : TRUE
         IN  SubSeq(t, 1, i - 1) \o <<e.ch>> \o Unescape(SubSeq(t, i + Len(e.ref), Len(t)))

\* sep.join(parts)
RECURSIVE JoinWith(_, _)
JoinWith(parts, sep) ==
    IF parts = <<>> THEN <<>>
    ELSE IF Len(parts) = 1 THEN parts[1]
    ELSE parts[1] \o sep \o JoinWith(Tail(parts), sep)

\* flatten_comments(children, depth): the comments (kind t1) of a listing
\* and of their replies, depth first; a child of kind "more" is skipped.
RECURSIVE flatten_comments(_, _)
flatten_comments(children, depth) ==
    IF children = <<>> THEN <<>>
    ELSE LET ch == Head(children)
             here == IF ch.kind = "t1"
                     THEN <<[f \in DOMAIN ch.data \cup {"_depth"} |->
                               IF f = "_depth" THEN depth ELSE ch.data[f]]>>
                          \o (IF ch.data.replies.is_dict
                              THEN flatten_comments(ch.data.replies.children, depth + 1)
                              ELSE <<>>)
                     ELSE <<>>
         IN  here \o flatten_comments(Tail(children), depth)

\* "; ".join(f"{k}:{', '.join(v)}" for k, v in num_details.items() if v)
quantitative_evidence(num_details) ==
    LET part(k, v) == IF Len(v) = 0 THEN <<>>
                      ELSE <<Chars(k) \o <<":">> \o JoinWith(v, Chars(", "))>>
    IN  JoinWith(part("money", num_details.money) \o part("duration", num_details.duration)
                 \o part("rate", num_details.rate) \o part("count", num_details.count)
                 \o part("percent", num_details.percent), Chars("; "))

\* ",".join(sorted(set(...))) of the reasons of a row
reasons(details, has_nums) ==
    JoinWith((IF has_nums THEN <<Chars("has_numbers")>> ELSE <<>>)
             \o (IF Len(details.markets_found) # 0 THEN <<Chars("market_hint")>> ELSE <<>>)
             \o (IF Len(details.money_spans) # 0 THEN <<Chars("money_mention")>> ELSE <<>>),
             <<",">>)

\* c.get("body", "") or ""
BodyOf(c) == IF c.body = None THEN <<>> ELSE c.body

\* The loop body keeping only the scores above min_score.
row_of_above(opts, c, body, num_details, details) ==
    IF Strip(body) = <<>> THEN <<>>
    ELSE IF ~opts.allow_no_numbers /\ ~num_details.any_num THEN <<>>
    ELSE IF details.score <= opts.min_score THEN <<>>
    ELSE << [ score |-> details.score,
              reasons |-> reasons(details, num_details.any_num),
              extracted_revenue |-> OrEmpty(extract_best_money(details.money_spans)),
              target_market |-> JoinWith(details.markets_found, Chars(", ")),
              service_description |-> <<>>,
              quantitative_evidence |-> quantitative_evidence(num_details),
              comment_id |-> c.id,
              author |-> c.author,
              ups |-> c.ups,
              permalink |-> Chars("https://www.reddit.com") \o c.permalink,
              body |-> body ] >>

\* The body of the loop "for c in flat" of main, given the unescaped body
\* and what has_quantitative and score_comment return for it: the row
\* appended for the comment c, or none.
row_of(opts, c, body, num_details, details) ==
    IF Strip(body) = <<>> THEN <<>>
    ELSE IF ~opts.allow_no_numbers /\ ~num_details.any_num THEN <<>>
    ELSE IF details.score < opts.min_score THEN <<>>
    ELSE << [ score |-> details.score,
              reasons |-> reasons(details, num_details.any_num),
              extracted_revenue |-> OrEmpty(extract_best_money(details.money_spans)),
              target_market |-> JoinWith(details.markets_found, Chars(", ")),
              service_description |-> <<>>,
              quantitative_evidence |-> quantitative_evidence(num_details),
              comment_id |-> c.id,
              author |-> c.author,
              ups |-> c.ups,
              permalink |-> Chars("https://www.reddit.com") \o c.permalink,
              body |-> body ] >>

\* The body of the loop "for c in flat" of main: body, num_details and
\* details are computed once each.
row_for(opts, c) ==
    TheOne(UNION { { row_of(opts, c, body, num_details, details) :
                       num_details \in {has_quantitative(body)},
                       details \in {score_comment(body)} } :
                   body \in {Unescape(BodyOf(c))} })

\* Evidence(...) or None, as a sequence of no or one record.
extract_evidence(subreddit, submission, comment) ==
    LET body == comment.body
        rev_match == Search(REVENUE_PATTERNS, body)
        norm == normalize_revenue(body, rev_match)
        unit == GroupOf(body, rev_match, "unit")
        score == compute_score_v2(body, submission.title, Group0(body, rev_match),
                                  norm.currency, unit)
    IN  IF body = <<>> THEN <<>>
        ELSE IF ~rev_match.ok THEN <<>>
        ELSE << [ subreddit |-> subreddit,
                  thread_title |-> submission.title,
                  thread_url |-> Chars("https://www.reddit.com") \o submission.permalink,
                  comment_url |-> Chars("https://www.reddit.com") \o comment.permalink,
                  author |-> IF comment.author # None /\ comment.author # <<>>
                             THEN comment.author ELSE Chars("[deleted]"),
                  post |-> Strip(body),
                  score |-> score ] >>

(***************************************************************************)
(*          STRATEGY B: search_threads, run_scrape and __main__            *)
(***************************************************************************)

SUBREDDITS ==
    << Chars("AI_Agents"), Chars("Entrepreneur"), Chars("SaaS"), Chars("startups"),
       Chars("ArtificialIntelligence"), Chars("MachineLearning"), Chars("nocode"),
       Chars("automation") >>

SEARCH_QUERIES ==
    << Chars("making money AI agents"), Chars("selling AI agents"),
       Chars("AI agent revenue"), Chars("agent as a service"), Chars("automations $/mo"),
       Chars("monetize AI agent"), Chars("clients AI agent niche"),
       Chars("vendre agent IA"), Chars("revenu par mois agent IA") >>

MAX_THREADS_PER_QUERY == 15
MAX_COMMENTS_PER_THREAD == 100
\* "if attempt > 5" in search_threads and fetch_comments
MAX_ATTEMPTS == 5

\* The model runs two of the eight subreddits and one of the nine queries.
RunSubreddits == <<SUBREDDITS[3], SUBREDDITS[8]>>
RunQueries == <<SEARCH_QUERIES[1]>>
\* The longest comment list a thread returns in the model.
MaxComments == 2

\* What reddit can return: two submissions, and comments of three ids; the
\* comment c1 is served with two bodies (a stale and a fresh fetch).
SubmissionIds == {"t1", "t2"}
Submission(id) ==
    [ id |-> id,
      title |-> IF id = "t1" THEN Chars("Selling bots") ELSE Chars("claude agents"),
      permalink |-> Chars("/r/x/") \o Chars(id) \o Chars("/") ]

Comment(id, body, author) ==
    [ id |-> id, body |-> body, author |-> author,
      permalink |-> Chars("/r/x/t/") \o Chars(id) \o Chars("/") ]

CommentPool ==
    { Comment("c1", Chars("I sold 2 bots, $500/mo"), Chars("ann")),
      Comment("c1", Chars("edit: made $2k/month for dentists "), Chars("ann")),
      Comment("c2", Chars("We made about 10k-15k per month but it failed and we got no sales"), None),
      Comment("c3", Chars("no numbers here"), Chars("bob")) }

\* A listing of submission ids, without repetition.
Listings ==
    {<<>>} \cup {<<a>> : a \in SubmissionIds}
    \cup {p \in {<<a, b>> : a \in SubmissionIds, b \in SubmissionIds} : p[1] # p[2]}

RECURSIVE SeqsUpTo(_, _)
SeqsUpTo(S, n) ==
    IF n = 0 THEN {<<>>}
    ELSE SeqsUpTo(S, n - 1)
         \cup {Append(q, x) : q \in {r \in SeqsUpTo(S, n - 1) : Len(r) = n - 1}, x \in S}

CommentLists == SeqsUpTo(CommentPool, MaxComments)

\* extract_evidence on everything reddit can return, evaluated once: the
\* pairs <<arguments, result>>.
EvidenceTable ==
    { <<x, extract_evidence(x[1], Submission(x[2]), x[3])>> :
        x \in {RunSubreddits[i] : i \in 1..Len(RunSubreddits)} \X SubmissionIds
               \X CommentPool }
ExtractedEvidence(sr, submission, c) ==
    (CHOOSE p \in EvidenceTable : p[1] = <<sr, submission.id, c>>)[2]

VARIABLES
    pc,             \* where __main__ is
    sub_ix, q_ix,   \* search_threads: the loops over SUBREDDITS and SEARCH_QUERIES
    attempt,        \* the retry counter of the running search or fetch
    call,           \* history: how the last remote call ended ("ok", "404", "error")
    seen_ids,       \* search_threads: submission ids already listed
    results,        \* search_threads: results / run_scrape: thread_refs
    thread_ix,      \* run_scrape: the loop over thread_refs
    seen_comments,  \* run_scrape
    evidences,      \* run_scrape: evidences / __main__: rows
    uniq,           \* __main__
    exported,       \* the rows handed to export_csv and export_markdown
    log,            \* the [WARN] and [INFO] lines printed
    first_body,     \* history: comment id -> the body of its first occurrence
    last_body,      \* history: comment id -> the body of its last occurrence
    extract_calls,  \* history: the comment ids handed to extract_evidence, in order
    candidate,      \* the arguments of one call of extract_evidence
    money_in,       \* the amounts of a text handed to the money normalizers
    money_out,      \* what the normalizers returned for it
    args,           \* run.py, main: the parsed command line
    flat,           \* run.py, main: flatten_comments(comments_listing)
    c_ix,           \* run.py, main: the loop over flat
    rows,           \* run.py, main: rows
    llm,            \* history: OPENAI_API_KEY set or not, and the reply to maybe_llm_refine
    scored          \* run.py: what score_comment returned for a body

vars == << pc, sub_ix, q_ix, attempt, call, seen_ids, results, thread_ix, seen_comments,
           evidences, uniq, exported, log, first_body, last_body, extract_calls,
           candidate, money_in, money_out, args, flat, c_ix, rows, llm, scored >>

\* The variables of main of run.py.
runpy == << args, flat, c_ix, rows, llm, scored >>
NoCall == [api_key |-> FALSE, reply |-> [kind |-> "none"]]
RunPyIdle ==
    args = <<>> /\ flat = <<>> /\ c_ix = 1 /\ rows = <<>> /\ llm = NoCall /\ scored = <<>>
\* The variables the pipeline of scrape_reddit_agents.py does not touch.
aside == << candidate, money_in, money_out, args, flat, c_ix, rows, llm, scored >>
\* The variables of search_threads and run_scrape.
crawl == << sub_ix, q_ix, attempt, call, seen_ids, results, thread_ix, seen_comments, log,
            first_body, last_body, extract_calls >>

\* The listing loop of search_threads: the unseen ids are appended as (sub, id).
RECURSIVE AddListing(_, _, _, _)
AddListing(sub, listing, seen, res) ==
    IF listing = <<>> THEN [seen_ids |-> seen, results |-> res]
    ELSE IF Head(listing) \notin seen
    THEN AddListing(sub, Tail(listing), seen \cup {Head(listing)},
                    Append(res, [sub |-> sub, id |-> Head(listing)]))
    ELSE AddListing(sub, Tail(listing), seen, res)

\* The loop of run_scrape without its "if c.id in seen_comments: continue".
RECURSIVE ScrapeCommentsNoSeen(_, _, _, _, _, _)
ScrapeCommentsNoSeen(sr, submission, comments, seen, evs, calls) ==
    IF comments = <<>> THEN [seen_comments |-> seen, evidences |-> evs, calls |-> calls]
    ELSE LET c == Head(comments)
         IN  ScrapeCommentsNoSeen(sr, submission, Tail(comments), seen \cup {c.id},
                                  evs \o ExtractedEvidence(sr, submission, c),
                                  Append(calls, c.id))

\* The same loop with seen_comments.add(c.id) under its "if ev:".
RECURSIVE ScrapeCommentsSeenIfEvidence(_, _, _, _, _, _)
ScrapeCommentsSeenIfEvidence(sr, submission, comments, seen, evs, calls) ==
    IF comments = <<>> THEN [seen_comments |-> seen, evidences |-> evs, calls |-> calls]
    ELSE LET c == Head(comments)
             ev == ExtractedEvidence(sr, submission, c)
         IN  IF c.id \in seen
             THEN ScrapeCommentsSeenIfEvidence(sr, submission, Tail(comments), seen, evs,
                                               calls)
             ELSE ScrapeCommentsSeenIfEvidence(sr, submission, Tail(comments),
                      IF ev # <<>> THEN seen \cup {c.id} ELSE seen,
                      evs \o ev, Append(calls, c.id))

\* The "for c in comments" loop of run_scrape; calls is the history of the
\* ids handed to extract_evidence.
RECURSIVE ScrapeComments(_, _, _, _, _, _)
ScrapeComments(sr, submission, comments, seen, evs, calls) ==
    IF comments = <<>> THEN [seen_comments |-> seen, evidences |-> evs, calls |-> calls]
    ELSE LET c == Head(comments)
         IN  IF c.id \in seen
             THEN ScrapeComments(sr, submission, Tail(comments), seen, evs, calls)
             ELSE ScrapeComments(sr, submission, Tail(comments), seen \cup {c.id},
                                 evs \o ExtractedEvidence(sr, submission, c),
                                 Append(calls, c.id))

\* History of the bodies the loop of run_scrape has iterated over, per id.
RECURSIVE FirstBodies(_, _)
FirstBodies(comments, first) ==
    IF comments = <<>> THEN first
    ELSE LET c == Head(comments)
         IN  FirstBodies(Tail(comments),
                 IF c.id \in DOMAIN first THEN first
                 ELSE [i \in DOMAIN first \cup {c.id} |->
                          IF i = c.id THEN c.body ELSE first[i]])
RECURSIVE LastBodies(_, _)
LastBodies(comments, last) ==
    IF comments = <<>> THEN last
    ELSE LET c == Head(comments)
         IN  LastBodies(Tail(comments),
                 [i \in DOMAIN last \cup {c.id} |-> IF i = c.id THEN c.body ELSE last[i]])

\* list({r.comment_url: r for r in rows}.values()): a dict keeps the position
\* of a key's first insertion and the value of its last.
RECURSIVE DictFromRows(_, _, _)
DictFromRows(rs, keys, val) ==
    IF rs = <<>> THEN [i \in 1..Len(keys) |-> val[keys[i]]]
    ELSE LET r == Head(rs)
         IN  IF r.comment_url \in DOMAIN val
             THEN DictFromRows(Tail(rs), keys, [val EXCEPT ![r.comment_url] = r])
             ELSE DictFromRows(Tail(rs), Append(keys, r.comment_url),
                               [u \in DOMAIN val \cup {r.comment_url} |->
                                   IF u = r.comment_url THEN r ELSE val[u]])
\* No deduplication at all.
KeepAll(rs) == rs
Dedup(rs) == DictFromRows(rs, <<>>, [u \in {} |-> 0])

\* The key without its lower(): (-r.score, r.subreddit, r.thread_title)
KeyLessCased(a, b) ==
    \/ -a.score < -b.score
    \/ /\ a.score = b.score
       /\ \/ StrLess(a.subreddit, b.subreddit)
          \/ /\ a.subreddit = b.subreddit
             /\ StrLess(a.thread_title, b.thread_title)

\* key=lambda r: (-r.score, r.subreddit.lower(), r.thread_title.lower())
KeyLess(a, b) ==
    \/ -a.score < -b.score
    \/ /\ a.score = b.score
       /\ \/ StrLess(Lower(a.subreddit), Lower(b.subreddit))
          \/ /\ Lower(a.subreddit) = Lower(b.subreddit)
             /\ StrLess(Lower(a.thread_title), Lower(b.thread_title))

\* An insertion that puts a row before the rows of the same key.
RECURSIVE InsertRowFirst(_, _)
InsertRowFirst(sorted, r) ==
    IF sorted = <<>> THEN <<r>>
    ELSE IF ~KeyLess(Head(sorted), r) THEN <<r>> \o sorted
    ELSE <<Head(sorted)>> \o InsertRowFirst(Tail(sorted), r)

\* list.sort(key=...): a stable sort, as an insertion sort that puts each
\* row behind the rows whose key is not greater.
RECURSIVE InsertRow(_, _)
InsertRow(sorted, r) ==
    IF sorted = <<>> THEN <<r>>
    ELSE IF KeyLess(r, Head(sorted)) THEN <<r>> \o sorted
    ELSE <<Head(sorted)>> \o InsertRow(Tail(sorted), r)
RECURSIVE SortRows(_)
SortRows(rs) ==
    IF rs = <<>> THEN <<>>
    ELSE InsertRow(SortRows(SubSeq(rs, 1, Len(rs) - 1)), rs[Len(rs)])

Sub == RunSubreddits[sub_ix]
Query == RunQueries[q_ix]

\* The next (sub, q) of the nested loops, or the return of search_threads.
NextQuery ==
    IF q_ix < Len(RunQueries) THEN /\ q_ix' = q_ix + 1
                            /\ UNCHANGED sub_ix
                            /\ pc' = "search"
    ELSE IF sub_ix < Len(RunSubreddits) THEN /\ q_ix' = 1
                                      /\ sub_ix' = sub_ix + 1
                                      /\ pc' = "search"
    ELSE /\ UNCHANGED <<sub_ix, q_ix>>
         /\ pc' = "scrape"

Init ==
    /\ pc = "search"
    /\ sub_ix = 1 /\ q_ix = 1 /\ attempt = 1 /\ call = "none"
    /\ seen_ids = {} /\ results = <<>>
    /\ thread_ix = 1 /\ seen_comments = {}
    /\ evidences = <<>> /\ uniq = <<>> /\ exported = <<>>
    /\ log = {}
    /\ first_body = <<>> /\ last_body = <<>> /\ extract_calls = <<>>
    /\ candidate = <<>> /\ money_in = <<>> /\ money_out = <<>>
    /\ RunPyIdle

\* sr.search(q, ...) returns a listing.
SearchOk ==
    /\ pc = "search"
    /\ \E listing \in Listings :
          /\ Len(listing) <= MAX_THREADS_PER_QUERY
          /\ LET r == AddListing(Sub, listing, seen_ids, results)
             IN  seen_ids' = r.seen_ids /\ results' = r.results
    /\ attempt' = 1
    /\ call' = "ok"
    /\ NextQuery
    /\ UNCHANGED <<thread_ix, seen_comments, evidences, uniq, exported, log, first_body, last_body, extract_calls>>
    /\ UNCHANGED aside

\* sr.search raises with "404" in the message: the query is skipped at once.
Search404 ==
    /\ pc = "search"
    /\ log' = log \cup {[level |-> "INFO", what |-> "search", sub |-> Sub, id |-> Query]}
    /\ attempt' = 1
    /\ call' = "404"
    /\ NextQuery
    /\ UNCHANGED <<seen_ids, results, thread_ix, seen_comments, evidences, uniq,
                   exported, first_body, last_body, extract_calls>>
    /\ UNCHANGED aside

\* The same without the break after the fifth attempt: the while loop starts
\* the query over.
SearchErrorAgain ==
    /\ pc = "search"
    /\ call' = "error"
    /\ IF attempt + 1 > MAX_ATTEMPTS
       THEN /\ log' = log \cup {[level |-> "WARN", what |-> "search", sub |-> Sub,
                                  id |-> Query]}
            /\ attempt' = 1
            /\ UNCHANGED <<pc, sub_ix, q_ix>>
       ELSE /\ attempt' = attempt + 1
            /\ UNCHANGED <<pc, sub_ix, q_ix, log>>
    /\ UNCHANGED <<seen_ids, results, thread_ix, seen_comments, evidences, uniq,
                   exported, first_body, last_body, extract_calls>>
    /\ UNCHANGED aside

\* sr.search raises another ServerError, ResponseException or RequestException.
SearchError ==
    /\ pc = "search"
    /\ call' = "error"
    /\ IF attempt + 1 > MAX_ATTEMPTS
       THEN /\ log' = log \cup {[level |-> "WARN", what |-> "search", sub |-> Sub,
                                  id |-> Query]}
            /\ attempt' = 1
            /\ NextQuery
       ELSE /\ attempt' = attempt + 1
            /\ UNCHANGED <<pc, sub_ix, q_ix, log>>
    /\ UNCHANGED <<seen_ids, results, thread_ix, seen_comments, evidences, uniq,
                   exported, first_body, last_body, extract_calls>>
    /\ UNCHANGED aside

\* fetch_comments returns: one pass of the loop of run_scrape over a thread.
FetchOk ==
    /\ pc = "scrape" /\ thread_ix <= Len(results)
    /\ \E listed \in CommentLists :
          LET ref == results[thread_ix]
              comments == SubSeq(listed, 1, Min(Len(listed), MAX_COMMENTS_PER_THREAD))
              r == ScrapeComments(ref.sub, Submission(ref.id), comments,
                                  seen_comments, evidences, extract_calls)
          IN  /\ seen_comments' = r.seen_comments
              /\ evidences' = r.evidences
              /\ extract_calls' = r.calls
              /\ first_body' = FirstBodies(comments, first_body)
              /\ last_body' = LastBodies(comments, last_body)
    /\ thread_ix' = thread_ix + 1
    /\ attempt' = 1
    /\ call' = "ok"
    /\ UNCHANGED <<pc, sub_ix, q_ix, seen_ids, results, uniq, exported, log>>
    /\ UNCHANGED aside

\* The same with the try of run_scrape around its loop instead of inside:
\* the error of one thread ends the loop over the threads.
FetchErrorAbort ==
    /\ pc = "scrape" /\ thread_ix <= Len(results)
    /\ call' = "error"
    /\ IF attempt + 1 > MAX_ATTEMPTS
       THEN /\ log' = log \cup {[level |-> "WARN", what |-> "thread",
                                  sub |-> results[thread_ix].sub,
                                  id |-> Chars(results[thread_ix].id)]}
            /\ attempt' = 1
            /\ thread_ix' = Len(results) + 1
       ELSE /\ attempt' = attempt + 1
            /\ UNCHANGED <<thread_ix, log>>
    /\ UNCHANGED <<pc, sub_ix, q_ix, seen_ids, results, seen_comments, evidences, uniq,
                   exported, first_body, last_body, extract_calls>>
    /\ UNCHANGED aside

\* fetch_comments catches an error, backs off and tries again; after the
\* fifth it raises, and run_scrape prints a warning and takes the next thread.
FetchError ==
    /\ pc = "scrape" /\ thread_ix <= Len(results)
    /\ call' = "error"
    /\ IF attempt + 1 > MAX_ATTEMPTS
       THEN /\ log' = log \cup {[level |-> "WARN", what |-> "thread",
                                  sub |-> results[thread_ix].sub,
                                  id |-> Chars(results[thread_ix].id)]}
            /\ attempt' = 1
            /\ thread_ix' = thread_ix + 1
       ELSE /\ attempt' = attempt + 1
            /\ UNCHANGED <<thread_ix, log>>
    /\ UNCHANGED <<pc, sub_ix, q_ix, seen_ids, results, seen_comments, evidences, uniq,
                   exported, first_body, last_body, extract_calls>>
    /\ UNCHANGED aside

\* run_scrape returns evidences; __main__ drops the duplicates of comment_url.
DedupStep ==
    /\ pc = "scrape" /\ thread_ix > Len(results)
    /\ uniq' = Dedup(evidences)
    /\ pc' = "sort"
    /\ UNCHANGED <<sub_ix, q_ix, attempt, call, seen_ids, results, thread_ix, seen_comments,
                   evidences, exported, log, first_body, last_body, extract_calls>>
    /\ UNCHANGED aside

SortStep ==
    /\ pc = "sort"
    /\ uniq' = SortRows(uniq)
    /\ pc' = "export"
    /\ UNCHANGED <<sub_ix, q_ix, attempt, call, seen_ids, results, thread_ix, seen_comments,
                   evidences, exported, log, first_body, last_body, extract_calls>>
    /\ UNCHANGED aside

\* "if uniq:" export_csv and export_markdown, else an [INFO] line.
ExportStep ==
    /\ pc = "export"
    /\ IF uniq # <<>>
       THEN exported' = uniq /\ UNCHANGED log
       ELSE /\ log' = log \cup {[level |-> "INFO", what |-> "empty", sub |-> <<>>,
                                  id |-> <<>>]}
            /\ UNCHANGED exported
    /\ pc' = "done"
    /\ UNCHANGED <<sub_ix, q_ix, attempt, call, seen_ids, results, thread_ix, seen_comments,
                   evidences, uniq, first_body, last_body, extract_calls>>
    /\ UNCHANGED aside

Next ==
    \/ SearchOk \/ Search404 \/ SearchError
    \/ FetchOk \/ FetchError
    \/ DedupStep \/ SortStep \/ ExportStep

Spec == Init /\ [][Next]_vars

(***************************************************************************)
(*        extract_evidence and compute_score_v2 on one comment             *)
(***************************************************************************)

\* The pieces the comment bodies of this specification are made of.
Fragments ==
    << Chars("$5k/mo "), Chars("it FAILED "),
       Chars("sold to clients for dentists with zapier n8n groq claude openai "),
       Chars("about 10 - 15 "), Chars("help "), Chars("7 ") >>
\* The most pieces in one body.
MaxFragments == 3

RECURSIVE JoinFragments(_)
JoinFragments(ixs) ==
    IF ixs = <<>> THEN <<>> ELSE Fragments[Head(ixs)] \o JoinFragments(Tail(ixs))

Bodies == {JoinFragments(ixs) : ixs \in SeqsUpTo(1..Len(Fragments), MaxFragments)}

\* One comment of one submission is about to be handed to extract_evidence.
InitScore ==
    /\ pc = "extract"
    /\ candidate \in { [subreddit |-> SUBREDDITS[3], submission |-> Submission(t),
                         comment |-> Comment("c1", body, Chars("ann"))] :
                           t \in SubmissionIds, body \in Bodies }
    /\ sub_ix = 1 /\ q_ix = 1 /\ attempt = 1 /\ call = "none"
    /\ seen_ids = {} /\ results = <<>>
    /\ thread_ix = 1 /\ seen_comments = {}
    /\ evidences = <<>> /\ uniq = <<>> /\ exported = <<>>
    /\ log = {}
    /\ first_body = <<>> /\ last_body = <<>> /\ extract_calls = <<>>
    /\ money_in = <<>> /\ money_out = <<>>
    /\ RunPyIdle

\* ev = extract_evidence(sr, submission, c); if ev: evidences.append(ev)
ExtractStep ==
    /\ pc = "extract"
    /\ evidences' = evidences \o extract_evidence(candidate.subreddit,
                                                   candidate.submission, candidate.comment)
    /\ pc' = "extracted"
    /\ UNCHANGED <<sub_ix, q_ix, attempt, call, seen_ids, results, thread_ix, seen_comments,
                   uniq, exported, log, first_body, last_body, extract_calls>>
    /\ UNCHANGED aside

NextScore == ExtractStep

SpecScore == InitScore /\ [][NextScore]_vars

(***************************************************************************)
(*       __main__ on any list of rows: deduplicate, sort, export           *)
(***************************************************************************)

Row(id, subreddit, title, score, post) ==
    [ subreddit |-> Chars(subreddit),
      thread_title |-> Chars(title),
      thread_url |-> Chars("https://www.reddit.com/r/x/t/"),
      comment_url |-> Chars("https://www.reddit.com") \o Comment(id, <<>>, None).permalink,
      author |-> Chars("ann"),
      post |-> Chars(post),
      score |-> score ]

\* Rows run_scrape may return: two pairs of rows of one comment, rows whose
\* keys differ in letter case only, rows of equal key.
EvidencePool ==
    { Row("c1", "SaaS", "Selling bots", 62, "A"),
      Row("c1", "SaaS", "Selling bots", 47, "B"),
      Row("c2", "automation", "claude agents", 62, "C"),
      Row("c3", "SaaS", "selling BOTS", 62, "D"),
      Row("c2", "automation", "claude agents", 0, "E"),
      Row("c4", "automation", "Selling bots", 47, "F") }
\* The longest list of rows.
MaxRows == 3

\* run_scrape has returned some list of rows.
InitRank ==
    /\ pc = "scrape"
    /\ evidences \in SeqsUpTo(EvidencePool, MaxRows)
    /\ sub_ix = 1 /\ q_ix = 1 /\ attempt = 1 /\ call = "none"
    /\ seen_ids = {} /\ results = <<>>
    /\ thread_ix = 1 /\ seen_comments = {}
    /\ uniq = <<>> /\ exported = <<>>
    /\ log = {}
    /\ first_body = <<>> /\ last_body = <<>> /\ extract_calls = <<>>
    /\ candidate = <<>> /\ money_in = <<>> /\ money_out = <<>>
    /\ RunPyIdle

NextRank == DedupStep \/ SortStep \/ ExportStep

SpecRank == InitRank /\ [][NextRank]_vars

(***************************************************************************)
(*     The money normalizers of both scripts on the amounts of a text      *)
(***************************************************************************)

\* The amounts a text of this specification is written with.
MoneyTokens ==
    << Chars("$1,200"), Chars("$1200.00"), Chars("1.2k"), Chars("2b"), Chars("1k"),
       Chars("$5m"), Chars("500"), Chars("1.200.000") >>
\* The most amounts in one text.
MaxTokens == 2

\* The body of a comment that names the amounts one after the other.
RECURSIVE MoneyText(_)
MoneyText(tokens) ==
    IF tokens = <<>> THEN <<>>
    ELSE IF Len(tokens) = 1 THEN tokens[1]
    ELSE tokens[1] \o Chars("; ") \o MoneyText(Tail(tokens))

InitMoney ==
    /\ pc = "money"
    /\ money_in \in SeqsUpTo({MoneyTokens[i] : i \in 1..Len(MoneyTokens)}, MaxTokens)
    /\ money_out = <<>>
    /\ sub_ix = 1 /\ q_ix = 1 /\ attempt = 1 /\ call = "none"
    /\ seen_ids = {} /\ results = <<>>
    /\ thread_ix = 1 /\ seen_comments = {}
    /\ evidences = <<>> /\ uniq = <<>> /\ exported = <<>>
    /\ log = {}
    /\ first_body = <<>> /\ last_body = <<>> /\ extract_calls = <<>>
    /\ candidate = <<>>
    /\ RunPyIdle

\* run.py, main: score, details = score_comment(body), then
\* revenue_norm = extract_best_money(details["money_spans"]).
MoneyA ==
    /\ pc = "money"
    /\ LET money_spans == score_comment(MoneyText(money_in)).money_spans
       IN  money_out' = [ strategy |-> "A",
                          money_spans |-> money_spans,
                          revenue_norm |-> extract_best_money(money_spans) ]
    /\ pc' = "money_done"
    /\ UNCHANGED <<evidences, uniq, exported, candidate, money_in>>
    /\ UNCHANGED crawl
    /\ UNCHANGED runpy

\* scrape_reddit_agents.py, extract_evidence: rev_match =
\* REVENUE_PATTERNS.search(body), then norm = normalize_revenue(rev_match),
\* and the evidence it returns.
MoneyB ==
    /\ pc = "money"
    /\ LET body == MoneyText(money_in)
           rev_match == Search(REVENUE_PATTERNS, body)
           evidence == extract_evidence(RunSubreddits[1], Submission("t1"),
                                        Comment("m1", body, Chars("ann")))
       IN  money_out' = IF rev_match.ok
                        THEN [ strategy |-> "B", rev_match |-> TRUE,
                               norm |-> normalize_revenue(body, rev_match),
                               evidence |-> evidence ]
                        ELSE [ strategy |-> "B", rev_match |-> FALSE,
                               evidence |-> evidence ]
    /\ pc' = "money_done"
    /\ UNCHANGED <<evidences, uniq, exported, candidate, money_in>>
    /\ UNCHANGED crawl
    /\ UNCHANGED runpy

NextMoney == MoneyA \/ MoneyB

SpecMoney == InitMoney /\ [][NextMoney]_vars

(***************************************************************************)
(*            run.py: main on one thread, with its arguments               *)
(***************************************************************************)

\* http_get(url, retries=3, ...)
RETRIES == 3
\* --min_score, default 4
DEFAULT_MIN_SCORE == 4

\* The command lines of the model: --min_score absent or 1 or 5,
\* --allow_no_numbers absent or present.
ArgsSet ==
    { [min_score |-> m, allow_no_numbers |-> a] :
        m \in {1, DEFAULT_MIN_SCORE, DEFAULT_MIN_SCORE + 1}, a \in BOOLEAN }

\* The children of a reddit listing.
NoReplies == [is_dict |-> FALSE]
Replies(children) == [is_dict |-> TRUE, children |-> children]
Child(id, body, ups, replies) ==
    [ kind |-> "t1",
      data |-> [ id |-> id, body |-> body, author |-> Chars("ann"), ups |-> ups,
                 permalink |-> Chars("/r/x/t/") \o Chars(id) \o Chars("/"),
                 replies |-> replies ] ]
More == [kind |-> "more", data |-> [id |-> "m1"]]

\* What reddit can return for the thread: a comment that sells without a
\* number, one with an escaped body, numbers and replies, one with a number
\* and a low score, a "more" stub, a comment without body.
ChildPool ==
    { Child("a1", Chars("I sold my ai agent to clients"), 5, NoReplies),
      Child("a2", Chars("I charge $5k/mo &lt; 10 clients"), 2,
            Replies(<< Child("a5", Chars("our agency sold chatbot to dentists"), 0,
                             NoReplies),
                       More >>)),
      Child("a3", Chars("it took 2 weeks"), 0,
            Replies(<< Child("a7", Chars("   "), 1, NoReplies) >>)),
      More,
      Child("a6", None, 1, NoReplies) }
\* The most top-level children of the listing.
MaxChildren == 2
Threads == SeqsUpTo(ChildPool, MaxChildren)

\* The comments flatten_comments can return, and the loop body of main on
\* each of them under each command line, evaluated once.
FlatPool ==
    UNION { {flatten_comments(<<ch>>, 0)[i] : i \in 1..Len(flatten_comments(<<ch>>, 0))} :
              ch \in ChildPool }
RowTable == { <<x, row_for(x[1], x[2])>> : x \in ArgsSet \X FlatPool }
RowFor(a, c) == (CHOOSE p \in RowTable : p[1] = <<a, c>>)[2]

\* The answers of the chat completion: an item of the JSON array is a dict,
\* with or without the three keys, or something else.
Absent == <<"absent">>
Item(target_market, service_description, revenue) ==
    [ is_dict |-> TRUE, target_market |-> target_market,
      service_description |-> service_description, revenue |-> revenue ]
ItemPool ==
    { Item(Chars("dentists"), Chars("bots"), Chars("$9k")),
      Item(Absent, Absent, Absent),
      [is_dict |-> FALSE] }
\* The most items in the array.
MaxItems == 2
Replies_LLM ==
    { [kind |-> "error"], [kind |-> "not_json"], [kind |-> "json", is_list |-> FALSE] }
    \cup { [kind |-> "json", is_list |-> TRUE, arr |-> arr] :
             arr \in SeqsUpTo(ItemPool, MaxItems) }

\* item.get(key, default)
Get(value, default) == IF value = Absent THEN default ELSE value
Truthy(value) == value # Absent /\ value # None /\ value # <<>>

\* The loop "for i, item in enumerate(arr)" of maybe_llm_refine from item i
\* on; an exception (mapping[i] out of range, item.get on a non-dict) ends it.
RECURSIVE refine_items(_, _, _)
refine_items(rs, arr, i) ==
    IF i > Len(arr) THEN rs
    ELSE IF i > Len(rs) THEN rs
    ELSE IF ~arr[i].is_dict THEN rs
    ELSE LET item == arr[i]
             old == rs[i]
             new == [old EXCEPT
                       !.target_market = Get(item.target_market, old.target_market),
                       !.service_description =
                           Get(item.service_description, old.service_description),
                       !.extracted_revenue =
                           IF ~Truthy(old.extracted_revenue) /\ Truthy(item.revenue)
                           THEN item.revenue ELSE old.extracted_revenue]
         IN  refine_items([rs EXCEPT ![i] = new], arr, i + 1)

\* maybe_llm_refine(rows, thread_title): rows afterwards.  api_key: whether
\* OPENAI_API_KEY is set; reply: what the request gave.
maybe_llm_refine(rs, api_key, reply) ==
    IF ~api_key THEN rs
    ELSE IF rs = <<>> THEN rs
    ELSE IF reply.kind # "json" THEN rs
    ELSE IF ~reply.is_list THEN rs
    ELSE refine_items(rs, reply.arr, 1)

\* sorted(rows, key=lambda x: (-x["score"], -(x["ups"] or 0)))
\* (reddit gives every comment an integer ups, and "n or 0" is n)
MdLess(a, b) ==
    \/ -a.score < -b.score
    \/ a.score = b.score /\ -a.ups < -b.ups
RECURSIVE InsertMd(_, _)
InsertMd(sorted, r) ==
    IF sorted = <<>> THEN <<r>>
    ELSE IF MdLess(r, Head(sorted)) THEN <<r>> \o sorted
    ELSE <<Head(sorted)>> \o InsertMd(Tail(sorted), r)
RECURSIVE SortMd(_)
SortMd(rs) ==
    IF rs = <<>> THEN <<>>
    ELSE InsertMd(SortMd(SubSeq(rs, 1, Len(rs) - 1)), rs[Len(rs)])

PipelineIdle ==
    /\ sub_ix = 1 /\ q_ix = 1
    /\ seen_ids = {} /\ results = <<>>
    /\ thread_ix = 1 /\ seen_comments = {}
    /\ evidences = <<>> /\ uniq = <<>>
    /\ log = {}
    /\ first_body = <<>> /\ last_body = <<>> /\ extract_calls = <<>>
    /\ candidate = <<>> /\ money_in = <<>> /\ money_out = <<>>

InitA ==
    /\ pc = "load"
    /\ args \in ArgsSet
    /\ attempt = 1 /\ call = "none"
    /\ flat = <<>> /\ c_ix = 1 /\ rows = <<>> /\ exported = <<>> /\ llm = NoCall
    /\ scored = <<>>
    /\ PipelineIdle

\* load_thread: http_get returns the JSON of the thread, or something that
\* is not the two listings (ValueError, main ends).
LoadOk ==
    /\ pc = "load"
    /\ \/ \E children \in Threads :
            /\ flat' = flatten_comments(children, 0)
            /\ pc' = "filter"
       \/ /\ pc' = "crashed"
          /\ UNCHANGED flat
    /\ call' = "ok"
    /\ UNCHANGED <<args, attempt, c_ix, rows, exported, llm, scored>>
    /\ UNCHANGED <<sub_ix, q_ix, seen_ids, results, thread_ix, seen_comments, evidences,
                   uniq, log, first_body, last_body, extract_calls, candidate, money_in, money_out>>

\* http_get: urlopen raises; after the last of the retries the error is
\* raised to main, which ends.
LoadError ==
    /\ pc = "load"
    /\ call' = "error"
    /\ IF attempt < RETRIES
       THEN attempt' = attempt + 1 /\ UNCHANGED pc
       ELSE pc' = "crashed" /\ UNCHANGED attempt
    /\ UNCHANGED <<args, flat, c_ix, rows, exported, llm, scored>>
    /\ UNCHANGED <<sub_ix, q_ix, seen_ids, results, thread_ix, seen_comments, evidences,
                   uniq, log, first_body, last_body, extract_calls, candidate, money_in, money_out>>

\* One pass of "for c in flat".
FilterStep ==
    /\ pc = "filter"
    /\ IF c_ix <= Len(flat)
       THEN /\ rows' = rows \o RowFor(args, flat[c_ix])
            /\ c_ix' = c_ix + 1
            /\ UNCHANGED pc
       ELSE /\ pc' = "refine"
            /\ UNCHANGED <<rows, c_ix>>
    /\ UNCHANGED <<args, attempt, call, flat, exported, llm, scored>>
    /\ UNCHANGED <<sub_ix, q_ix, seen_ids, results, thread_ix, seen_comments, evidences,
                   uniq, log, first_body, last_body, extract_calls, candidate, money_in, money_out>>

RefineStep ==
    /\ pc = "refine"
    /\ \E api_key \in BOOLEAN, reply \in Replies_LLM :
          /\ rows' = maybe_llm_refine(rows, api_key, reply)
          /\ llm' = [api_key |-> api_key, reply |-> reply]
    /\ pc' = "write"
    /\ UNCHANGED <<args, attempt, call, flat, c_ix, exported, scored>>
    /\ UNCHANGED <<sub_ix, q_ix, seen_ids, results, thread_ix, seen_comments, evidences,
                   uniq, log, first_body, last_body, extract_calls, candidate, money_in, money_out>>

\* The CSV gets the rows in their order, the Markdown the rows sorted.
WriteStep ==
    /\ pc = "write"
    /\ exported' = [csv |-> rows, md |-> SortMd(rows)]
    /\ pc' = "done"
    /\ UNCHANGED <<args, attempt, call, flat, c_ix, rows, llm, scored>>
    /\ UNCHANGED <<sub_ix, q_ix, seen_ids, results, thread_ix, seen_comments, evidences,
                   uniq, log, first_body, last_body, extract_calls, candidate, money_in, money_out>>

NextA == LoadOk \/ LoadError \/ FilterStep \/ RefineStep \/ WriteStep

SpecA == InitA /\ [][NextA]_vars

(***************************************************************************)
(*           A run of either script, which keeps taking steps              *)
(***************************************************************************)

InitRuns == Init \/ InitA

NextRuns == Next \/ NextA

\* Both scripts are one thread of blocking calls that return or raise: a
\* step that can be taken is taken.
SpecRuns == InitRuns /\ [][NextRuns]_vars /\ WF_vars(NextRuns)

(***************************************************************************)
(*                   run.py: score_comment on one body                     *)
(***************************************************************************)

\* The pieces the bodies of this specification are made of: selling and
\* narrative words, the selling keyword MRR, an agent and a market word,
\* one amount, four amounts, and a piece without any signal.
WordsA ==
    << Chars("so we sold "), Chars("my MRR "), Chars("ai agent for dentists "),
       Chars("$5 "), Chars("$5 $6 $7 $8 "), Chars("ok ") >>
\* The most pieces in one body.
MaxWordsA == 3

RECURSIVE JoinWordsA(_)
JoinWordsA(ixs) ==
    IF ixs = <<>> THEN <<>> ELSE WordsA[Head(ixs)] \o JoinWordsA(Tail(ixs))

BodiesA == {JoinWordsA(ixs) : ixs \in SeqsUpTo(1..Len(WordsA), MaxWordsA)}

\* main is about to score the body of one comment.
InitScoreA ==
    /\ pc = "score_comment"
    /\ candidate \in {[body |-> body] : body \in BodiesA}
    /\ sub_ix = 1 /\ q_ix = 1 /\ attempt = 1 /\ call = "none"
    /\ seen_ids = {} /\ results = <<>>
    /\ thread_ix = 1 /\ seen_comments = {}
    /\ evidences = <<>> /\ uniq = <<>> /\ exported = <<>>
    /\ log = {}
    /\ first_body = <<>> /\ last_body = <<>> /\ extract_calls = <<>>
    /\ money_in = <<>> /\ money_out = <<>>
    /\ RunPyIdle

\* score, details = score_comment(body)
ScoreCommentStep ==
    /\ pc = "score_comment"
    /\ scored' = score_comment(candidate.body)
    /\ pc' = "scored"
    /\ UNCHANGED <<evidences, uniq, exported, candidate, money_in, money_out>>
    /\ UNCHANGED crawl
    /\ UNCHANGED <<args, flat, c_ix, rows, llm>>

NextScoreA == ScoreCommentStep

SpecScoreA == InitScoreA /\ [][NextScoreA]_vars

(***************************************************************************)
(*            Properties of the pipeline of scrape_reddit_agents.py        *)
(***************************************************************************)

\* A text holds a failure cue, in any letter case.
HasFailCue(text) == \E cue \in FAIL_CUES : Contains(Lower(text), cue)

\* The comment_url of the records of the comment with this id.
UrlOf(id) == Chars("https://www.reddit.com") \o Comment(id, <<>>, None).permalink

\* C3: a comment whose body contains a failure cue is excluded from the
\* output: once the run has exported, no exported record is that of a comment
\* with a failure cue in its body.
C3_FailCueExcluded ==
    pc = "done" => \A i \in 1..Len(exported) : ~HasFailCue(exported[i].post)

\* C5 as stated: when a comment id was met with several bodies, the exported
\* record of that comment carries the body of the last occurrence processed.
C5_LastSeenWins ==
    pc = "done" =>
        \A id \in DOMAIN last_body : \A i \in 1..Len(exported) :
            exported[i].comment_url = UrlOf(id) => exported[i].post = Strip(last_body[id])

\* C5 amended: when a comment id was met with several bodies, an exported
\* record of that comment carries the body of the first occurrence processed,
\* and there is at most one such record.
C5_FirstSeenWins ==
    pc = "done" =>
        \A id \in DOMAIN first_body :
            /\ \A i \in 1..Len(exported) :
                  exported[i].comment_url = UrlOf(id)
                      => exported[i].post = Strip(first_body[id])
            /\ Cardinality({i \in 1..Len(exported) :
                               exported[i].comment_url = UrlOf(id)}) <= 1

\* A run that exported the record of a comment met first with one body and
\* last with another.
C5_Witness ==
    /\ pc = "done"
    /\ \E id \in DOMAIN first_body :
          /\ Strip(first_body[id]) # Strip(last_body[id])
          /\ \E i \in 1..Len(exported) : exported[i].comment_url = UrlOf(id)

(***************************************************************************)
(*                    Properties of the Strategy B score                   *)
(***************************************************************************)

\* C1: the score of a comment whose body contains a failure cue, in any
\* letter case, is exactly 0, whatever other signals the body carries.
C1_FailCueScoresZero ==
    \A i \in 1..Len(evidences) :
        HasFailCue(candidate.comment.body) => evidences[i].score = 0

\* A scored comment with a failure cue written in capitals, next to a
\* currency, a period, a market, a stack and a success cue.
C1_Witness ==
    /\ pc = "extracted" /\ Len(evidences) = 1
    /\ HasFailCue(candidate.comment.body)
    /\ ~AnyIn(candidate.comment.body, FAIL_CUES)
    /\ AnyIn(candidate.comment.body, SUCCESS_CUES)
    /\ _stack_points(candidate.comment.body, candidate.submission.title) = 15
    /\ Contains(candidate.comment.body, <<"$">>)

\* C2: the score stored in an Evidence record is an integer from 0 to 100.
C2_ScoreInRange ==
    \A i \in 1..Len(evidences) : evidences[i].score \in 0..100

\* The top of the range is reached by the record of a scored comment.
C2_Witness ==
    /\ pc = "extracted" /\ Len(evidences) = 1
    /\ evidences[1].score = 100

\* The sentiment and the stack points as documented: 10 with a success cue,
\* else 5 with a doubt cue, else 7; 3 for each distinct tooling name in the
\* body or the thread title, 15 at most.
SentimentOf(body) ==
    IF \E cue \in SUCCESS_CUES : Contains(Lower(body), cue) THEN 10
    ELSE IF \E cue \in DOUBT_CUES : Contains(Lower(body), cue) THEN 5
    ELSE 7
StackOf(body, title) ==
    LET named == {cue \in SERVICE_CUES :
                     Contains(Lower(body), cue) \/ Contains(Lower(title), cue)}
    IN  IF 3 * Cardinality(named) > 15 THEN 15 ELSE 3 * Cardinality(named)
\* The points of the money match of a body: currency, period, precision,
\* and of its market.
PartsOf(body) ==
    LET m == Search(REVENUE_PATTERNS, body)
    IN  [ currency |-> IF normalize_revenue(body, m).currency # None
                          \/ _has_currency_code(body) THEN 5 ELSE 0,
          period |-> _period_points(_detect_period(GroupOf(body, m, "unit"), body)),
          precision |-> _precision_points(body, Group0(body, m)),
          market |-> _market_points(body) ]

\* C14: the score of a body with a money match and no failure cue is 25
\* plus its currency points (0 or 5), period points, precision points (5 or
\* 10), market points (0, 10 or 20), stack points and sentiment points; with
\* no period, market, stack and sentiment cue it is 25 + currency +
\* precision + 7.
C14_ScoreIsSumOfParts ==
    (pc = "extracted" /\ evidences # <<>> /\ ~HasFailCue(candidate.comment.body)) =>
        LET body == candidate.comment.body
            title == candidate.submission.title
            p == PartsOf(body)
        IN  /\ p.currency \in {0, 5}
            /\ p.precision \in {5, 10}
            /\ p.market \in {0, 10, 20}
            /\ evidences[1].score
                  = 25 + p.currency + p.period + p.precision + p.market
                       + StackOf(body, title) + SentimentOf(body)
            /\ (p.period = 0 /\ p.market = 0 /\ StackOf(body, title) = 0
                  /\ SentimentOf(body) = 7)
                 => evidences[1].score = 25 + p.currency + p.precision + 7

\* A scored comment with a bare amount: no currency, no period, no market,
\* no tooling and no cue; its score is 25 + 0 + 10 + 7.
C14_Witness ==
    /\ pc = "extracted" /\ Len(evidences) = 1
    /\ ~HasFailCue(candidate.comment.body)
    /\ PartsOf(candidate.comment.body)
          = [currency |-> 0, period |-> 0, precision |-> 10, market |-> 0]
    /\ StackOf(candidate.comment.body, candidate.submission.title) = 0
    /\ SentimentOf(candidate.comment.body) = 7
    /\ evidences[1].score = 42

\* The unit of the money match of a body, without "/", "per", "p/" and
\* spaces; None when the match has no unit.
UnitWord(body) ==
    LET unit == GroupOf(body, Search(REVENUE_PATTERNS, body), "unit")
    IN  IF unit = None THEN None
        ELSE IF StartsWith(unit, Chars("per"))
        THEN Strip(SubSeq(unit, 4, Len(unit)))
        ELSE IF StartsWith(unit, Chars("p/"))
        THEN Strip(SubSeq(unit, 3, Len(unit)))
        ELSE Strip(ReplaceCh(unit, "/", <<>>))
\* The units that name a day, a week, a month or a year.
PeriodWords ==
    { Chars("d"), Chars("day"), Chars("jour"), Chars("j"),
      Chars("w"), Chars("wk"), Chars("week"), Chars("semaine"), Chars("sem"),
      Chars("mo"), Chars("month"), Chars("mois"), Chars("m"),
      Chars("y"), Chars("yr"), Chars("year"), Chars("an"), Chars("ans"),
      Chars("ann") \o <<E_ACUTE>> \o Chars("e") }
\* The period points as documented.
PeriodOf(body) ==
    IF UnitWord(body) = None THEN 0
    ELSE IF UnitWord(body) \in PeriodWords THEN 15
    ELSE 5

\* C16: the period points in the score are 15 when the unit of the money
\* match is a day, week, month or year, 5 when the match has another unit,
\* and 0 when the match has no unit.
C16_PeriodPoints ==
    (pc = "extracted" /\ evidences # <<>> /\ ~HasFailCue(candidate.comment.body)) =>
        LET body == candidate.comment.body
            p == PartsOf(body)
        IN  evidences[1].score
              = 25 + p.currency + PeriodOf(body) + p.precision + p.market
                   + StackOf(body, candidate.submission.title) + SentimentOf(body)

(***************************************************************************)
(*               Properties of the deduplication and the sort              *)
(***************************************************************************)

UrlsOf(rs) == {rs[i].comment_url : i \in 1..Len(rs)}
RowsOf(rs) == {rs[i] : i \in 1..Len(rs)}
PositionIn(rs, r) == CHOOSE i \in 1..Len(rs) : rs[i] = r

\* The order of the output: score descending, then subreddit and thread
\* title ascending, both without regard to letter case.
SameKey(a, b) ==
    /\ a.score = b.score
    /\ Lower(a.subreddit) = Lower(b.subreddit)
    /\ Lower(a.thread_title) = Lower(b.thread_title)
Precedes(a, b) ==
    \/ a.score > b.score
    \/ a.score = b.score /\ Lower(a.subreddit) # Lower(b.subreddit)
         /\ StrLess(Lower(a.subreddit), Lower(b.subreddit))
    \/ a.score = b.score /\ Lower(a.subreddit) = Lower(b.subreddit)
         /\ Lower(a.thread_title) # Lower(b.thread_title)
         /\ StrLess(Lower(a.thread_title), Lower(b.thread_title))

\* C4: after the deduplication no two rows share a comment_url, every
\* comment_url of the input has a row, and each row is one of the input.
C4_OnePerCommentUrl ==
    pc \in {"sort", "export", "done"} =>
        /\ \A i, j \in 1..Len(uniq) : uniq[i].comment_url = uniq[j].comment_url => i = j
        /\ UrlsOf(uniq) = UrlsOf(evidences)
        /\ RowsOf(uniq) \subseteq RowsOf(evidences)

\* Two rows of one comment went in and one came out.
C4_Witness ==
    /\ pc = "sort"
    /\ Len(evidences) = 3 /\ Len(uniq) = 2

\* C6: the output is ordered by descending score, then subreddit, then
\* thread title, both case-insensitive, and rows equal on the three keys keep
\* the order they had after the deduplication.
C6_SortedStable ==
    pc \in {"export", "done"} =>
        /\ RowsOf(uniq) = RowsOf(Dedup(evidences)) /\ Len(uniq) = Len(Dedup(evidences))
        /\ \A i, j \in 1..Len(uniq) :
              i < j => \/ Precedes(uniq[i], uniq[j])
                       \/ /\ SameKey(uniq[i], uniq[j])
                          /\ PositionIn(Dedup(evidences), uniq[i])
                               < PositionIn(Dedup(evidences), uniq[j])

\* A sorted output with two rows of equal key and two rows that the
\* letter case of the subreddit would order the other way.
C6_Witness ==
    /\ pc = "done" /\ Len(exported) = 3
    /\ \E i, j \in 1..3 : i < j /\ SameKey(exported[i], exported[j])
    /\ \E i, j \in 1..3 : /\ i < j
                            /\ exported[i].score = exported[j].score
                            /\ StrLess(exported[j].subreddit, exported[i].subreddit)
                            /\ exported[i].subreddit # exported[j].subreddit

\* C7: the deduplication and the sort applied to their own output give the
\* same rows in the same order.
C7_Idempotent ==
    pc \in {"export", "done"} => SortRows(Dedup(uniq)) = uniq

\* An output that differs from the input, with rows of equal key.
C7_Witness ==
    /\ pc = "export" /\ Len(evidences) = 3 /\ uniq # evidences
    /\ \E i, j \in 1..Len(uniq) : i < j /\ SameKey(uniq[i], uniq[j])

\* The number of the running (subreddit, query) pair of search_threads.
UnitNo == (sub_ix - 1) * Len(RunQueries) + q_ix
Warning(what, sub, id) == [level |-> "WARN", what |-> what, sub |-> sub, id |-> id]

\* C11: when the fifth try of a search or of a fetch fails, a warning names
\* the query or the thread, the thread references and the evidence collected
\* so far are kept, the run goes on with exactly the next query or thread,
\* and a run that gets to the export has been through every thread.
C11_ExhaustionSkipsOneUnit ==
    /\ [][ (pc \in {"search", "scrape"} /\ attempt = MAX_ATTEMPTS /\ call' = "error") =>
             /\ results' = results /\ seen_ids' = seen_ids
             /\ evidences' = evidences /\ seen_comments' = seen_comments
             /\ attempt' = 1
             /\ pc = "search" =>
                   /\ Warning("search", Sub, Query) \in log'
                   /\ IF UnitNo < Len(RunSubreddits) * Len(RunQueries)
                      THEN pc' = "search" /\ UnitNo' = UnitNo + 1
                      ELSE pc' = "scrape" /\ thread_ix' = 1
             /\ pc = "scrape" =>
                   /\ Warning("thread", results[thread_ix].sub,
                              Chars(results[thread_ix].id)) \in log'
                   /\ pc' = "scrape" /\ thread_ix' = thread_ix + 1 ]_vars
    /\ [](pc \in {"sort", "export", "done"} => thread_ix = Len(results) + 1)

\* A finished run in which the search of the first subreddit and the fetch
\* of the first thread were given up, and the second thread gave evidence.
C11_Witness ==
    /\ pc = "done"
    /\ Warning("search", RunSubreddits[1], RunQueries[1]) \in log
    /\ Len(results) = 2
    /\ Warning("thread", results[1].sub, Chars(results[1].id)) \in log
    /\ Warning("thread", results[2].sub, Chars(results[2].id)) \notin log
    /\ exported # <<>>

(***************************************************************************)
(*                    Properties of main of run.py                         *)
(***************************************************************************)

\* The three conditions of a command line and a comment: the unescaped body
\* is not blank, score_comment gives at least min_score, and has_quantitative
\* finds a number or --allow_no_numbers is set.
ThreeConditions(opts, c) ==
    LET body == Unescape(BodyOf(c))
    IN  /\ Strip(body) # <<>>
        /\ score_comment(body).score >= opts.min_score
        /\ (has_quantitative(body).any_num \/ opts.allow_no_numbers)
\* The command lines and comments of which they hold.
Verdicts == { <<x, ThreeConditions(x[1], x[2])>> : x \in ArgsSet \X FlatPool }
Qualifying == { v[1] : v \in {w \in Verdicts : w[2]} }
Qualifies(c) == <<args, c>> \in Qualifying
CommentIds(rs) == [i \in 1..Len(rs) |-> rs[i].comment_id]
IdsOf(cs) == [i \in 1..Len(cs) |-> cs[i].id]

\* C8: a comment gets a row if and only if its body is not blank, its score
\* is at least min_score, and it has quantitative evidence or
\* --allow_no_numbers is set: the rows are, in order, those of the comments
\* seen so far of which the three conditions hold, and the CSV and the
\* Markdown get exactly these.
C8_RowIffQualifies ==
    /\ pc \in {"filter", "refine", "write", "done"}
          => CommentIds(rows) = IdsOf(SelectSeq(SubSeq(flat, 1, c_ix - 1), Qualifies))
    /\ pc = "done"
          => /\ CommentIds(exported.csv) = IdsOf(SelectSeq(flat, Qualifies))
             /\ Len(exported.md) = Len(exported.csv)
             /\ \A i \in 1..Len(exported.md) :
                   \E j \in 1..Len(exported.csv) :
                       exported.md[i].comment_id = exported.csv[j].comment_id

\* A run in default mode that is done: a comment that only lacks a number
\* got no row, and a comment whose score is min_score got one.
C8_Witness ==
    /\ pc = "done"
    /\ ~args.allow_no_numbers /\ args.min_score = DEFAULT_MIN_SCORE
    /\ \E i \in 1..Len(flat) :
          /\ <<[args EXCEPT !.allow_no_numbers = TRUE], flat[i]>> \in Qualifying
          /\ ~Qualifies(flat[i])
          /\ \A j \in 1..Len(exported.csv) : exported.csv[j].comment_id # flat[i].id
    /\ \E j \in 1..Len(exported.csv) : exported.csv[j].score = args.min_score

\* A reply to the n rows sent that is malformed: its content is not JSON,
\* is not an array, has an item that is not an object, or has not n items.
Malformed(reply, n) ==
    \/ reply.kind = "not_json"
    \/ reply.kind = "json" /\ ~reply.is_list
    \/ /\ reply.kind = "json" /\ reply.is_list
       /\ \/ Len(reply.arr) # n
          \/ \E i \in 1..Len(reply.arr) : ~reply.arr[i].is_dict
ExtractedFields(r) == <<r.target_market, r.service_description, r.extracted_revenue>>

\* C12: when the reply to maybe_llm_refine is malformed, target_market,
\* service_description and extracted_revenue of every row are after the call
\* what they were before it.
C12_MalformedKeepsRows ==
    [][ (pc = "refine" /\ llm'.api_key /\ Malformed(llm'.reply, Len(rows))) =>
          /\ Len(rows') = Len(rows)
          /\ \A i \in 1..Len(rows) :
                ExtractedFields(rows'[i]) = ExtractedFields(rows[i]) ]_vars

(***************************************************************************)
(*                  Properties of the money normalizers                    *)
(***************************************************************************)

\* C9: "$1,200", "$1200.00" and "1.2k" all normalize to the amount 1200:
\* Strategy A writes 1200 behind the currency sign, Strategy B computes 1200.
C9_SameAmount ==
    ( /\ pc = "money_done" /\ Len(money_in) = 1
      /\ money_in[1] \in {Chars("$1,200"), Chars("$1200.00"), Chars("1.2k")} )
    => IF money_out.strategy = "A"
       THEN money_out.revenue_norm \in {Chars("1200"), Chars("$1200")}
       ELSE money_out.rev_match /\ money_out.norm.amount = DecInt(1200)

\* The amount each of the texts stands for, in base units.
BaseAmount(token) ==
    CASE token = Chars("$1,200") -> 1200
      [] token = Chars("$1200.00") -> 1200
      [] token = Chars("1.2k") -> 1200
      [] token = Chars("2b") -> 2000000000
      [] token = Chars("1k") -> 1000
      [] token = Chars("$5m") -> 5000000
      [] token = Chars("500") -> 500
      [] token = Chars("1.200.000") -> 1200000

\* The earliest of the amounts that no other exceeds.
Largest(tokens) ==
    CHOOSE i \in 1..Len(tokens) :
        /\ \A j \in 1..Len(tokens) : BaseAmount(tokens[j]) <= BaseAmount(tokens[i])
        /\ \A j \in 1..(i - 1) : BaseAmount(tokens[j]) < BaseAmount(tokens[i])

\* C10: of the money matches of a comment, the representative value is the
\* match of the largest base-unit amount, the earliest one among equals:
\* revenue_norm is that match normalized (Strategy A), the match handed to
\* normalize_revenue is that match (Strategy B).
C10_LargestEarliest ==
    (pc = "money_done" /\ money_in # <<>>) =>
        IF money_out.strategy = "A"
        THEN money_out.money_spans = money_in
                => money_out.revenue_norm = normalize_money(money_in[Largest(money_in)])
        ELSE Spans(REVENUE_PATTERNS, MoneyText(money_in)) = money_in
                => /\ money_out.rev_match
                   /\ money_out.norm.original = money_in[Largest(money_in)]


\* The match whose number float() takes, after run.py has removed its commas.
ParsableA(tok) ==
    LET text == Lower(tok)
    IN  Float(NumberText(text, Search(RE_MONEY, text))) # NoneFloat
\* The match whose amount _to_float_amount takes.
ParsableB(span) ==
    LET m == Search(REVENUE_PATTERNS, span)
    IN  _to_float_amount(Strip(OrEmpty(GroupOf(span, m, "amount")))) # NoneFloat

\* C13: a money match whose number cannot be parsed counts as no monetary
\* evidence and the other matches are still scanned: Strategy A gives the
\* representative of the parsable matches alone, and Strategy B records no
\* evidence for a body none of whose matches can be parsed.
C13_UnparsableSkipped ==
    pc = "money_done" =>
        IF money_out.strategy = "A"
        THEN money_out.revenue_norm
                = extract_best_money(SelectSeq(money_out.money_spans, ParsableA))
        ELSE (\A i \in 1..Len(money_in) : ~ParsableB(money_in[i]))
                => money_out.evidence = <<>>


\* The power of 1000 a magnitude suffix stands for.
SuffixPower(suffix) ==
    IF suffix = None \/ suffix = <<>> THEN 1
    ELSE IF StartsWith(suffix, <<"k">>) \/ suffix = Chars("thousand") THEN 1000
    ELSE IF StartsWith(suffix, <<"m">>) THEN 1000000
    ELSE 1000000000

\* C17: the magnitude suffix the money pattern matches is applied to the parsed
\* literal as a power of 1000 before the amount is stored: k and thousand
\* multiply by 1,000, m and million by 1,000,000, b by 1,000,000,000.
C17_SuffixApplied ==
    ( /\ pc = "money_done" /\ money_out.strategy = "A"
      /\ Len(money_in) = 1 /\ money_out.money_spans = money_in
      /\ ParsableA(money_in[1]) )
    => LET text == Lower(money_in[1])
           m == Search(RE_MONEY, text)
           val == Float(NumberText(text, m))
           suffix == GroupOf(text, m, "suffix")
           currency == OrEmpty(GroupOf(text, m, "currency"))
       IN  money_out.revenue_norm
             = currency \o FormatVal(DecTimes(val, SuffixPower(suffix)))


(***************************************************************************)
(*                   Properties of the Strategy A score                    *)
(***************************************************************************)

\* A word of the list is in the body, in any letter case.
Present(body, words) == \E w \in words : Contains(Lower(body), Lower(w))

\* The Strategy A score as documented.
ScoreA(body) ==
    (IF Present(body, KEYWORDS_SELL) THEN 2 ELSE 0)
    + (IF Present(body, KEYWORDS_AGENT) THEN 2 ELSE 0)
    + (IF Len(Spans(RE_MONEY, body)) > 3 THEN 3 ELSE Len(Spans(RE_MONEY, body)))
    + (IF Present(body, {MARKET_HINTS[i] : i \in 1..Len(MARKET_HINTS)}) THEN 1 ELSE 0)
    + (IF Present(body, NARRATIVE_CUES) THEN 1 ELSE 0)

\* C15: the Strategy A score of a body is 2 for a selling keyword, plus 2
\* for an agent keyword, plus the number of money matches up to 3, plus 1 for
\* a market hint, plus 1 for a narrative cue, and so lies in 0..9.
C15_ScoreAFormula ==
    pc = "scored" =>
        /\ scored.score = ScoreA(candidate.body)
        /\ scored.score \in 0..9


(***************************************************************************)
(*                     Properties of the retry loops                       *)
(***************************************************************************)

\* The state in which the next step is a remote call and its outcome.
RemoteCall ==
    \/ pc = "search"
    \/ pc = "scrape" /\ thread_ix <= Len(results)
    \/ pc = "load"
\* The attempts the loop around the call allows.
Bound == IF pc = "load" THEN RETRIES ELSE MAX_ATTEMPTS
\* The step that tries the same call once more.
Retried ==
    /\ attempt' = attempt + 1
    /\ pc' = pc /\ sub_ix' = sub_ix /\ q_ix' = q_ix /\ thread_ix' = thread_ix
\* The step that leaves the call: the next query or thread, or the end of main.
GivenUp ==
    CASE pc = "search" -> attempt' = 1 /\ (pc' = "scrape" \/ UnitNo' = UnitNo + 1)
      [] pc = "scrape" -> attempt' = 1 /\ thread_ix' = thread_ix + 1 /\ pc' = "scrape"
      [] pc = "load" -> pc' = "crashed"
Ended == pc \in {"done", "crashed"}
\* The steps a run has left at most: the tries of the calls ahead of it, one
\* step for each comment of run.py still to filter, and the steps behind.
StepsLeft ==
    CASE pc = "search" ->
            (Len(RunSubreddits) * Len(RunQueries) - UnitNo + 1) * MAX_ATTEMPTS - attempt
            + Cardinality(SubmissionIds) * MAX_ATTEMPTS + 4
      [] pc = "scrape" -> (Len(results) - thread_ix + 1) * MAX_ATTEMPTS - attempt + 4
      [] pc = "sort" -> 2
      [] pc = "export" -> 1
      [] pc = "load" -> RETRIES - attempt + 2 * MaxChildren + 4
      [] pc = "filter" -> Len(flat) - c_ix + 4
      [] pc = "refine" -> 2
      [] pc = "write" -> 1
      [] OTHER -> 0

\* C18: every retry loop around a remote call is bounded: a failing search or
\* fetch is tried at most 5 times and a failing http_get at most 3 times, then
\* the loop is left; a 404 leaves the search at once; and every run ends,
\* the run in which every remote call fails included: each step lowers the
\* number of steps the run has left, which is zero when the run has ended.
C18_BoundedRetries ==
    /\ [](RemoteCall => attempt \in 1..Bound)
    /\ [][ (RemoteCall /\ call' = "error") =>
              IF attempt < Bound THEN Retried ELSE GivenUp ]_vars
    /\ [][ (pc = "search" /\ call' = "404") => GivenUp ]_vars
    /\ [][ StepsLeft' < StepsLeft /\ StepsLeft' >= 0 ]_vars
    /\ [](StepsLeft = 0 <=> Ended)

\* The run of Strategy B in which every search failed five times has ended.
C18_Witness ==
    /\ pc = "done" /\ call = "error" /\ results = <<>>
    /\ \A i \in 1..Len(RunSubreddits), j \in 1..Len(RunQueries) :
          Warning("search", RunSubreddits[i], RunQueries[j]) \in log


(***************************************************************************)
(*                 Properties of the seen set of run_scrape                *)
(***************************************************************************)

\* The ids of a sequence of ids.
Range(s) == {s[i] : i \in 1..Len(s)}
\* The evidence records of a comment id.
RecordsOf(id) == {i \in 1..Len(evidences) : evidences[i].comment_url = UrlOf(id)}

\* C19: in one run of run_scrape, every comment id the loop meets is handed to
\* extract_evidence once and no more, it is in the seen set from then on
\* whether or not evidence came of it, and the evidence list holds at most
\* one record of a comment id.
C19_ExtractedOnce ==
    /\ \A i, j \in 1..Len(extract_calls) :
          extract_calls[i] = extract_calls[j] => i = j
    /\ Range(extract_calls) = seen_comments
    /\ DOMAIN first_body = seen_comments
    /\ \A id \in seen_comments : Cardinality(RecordsOf(id)) <= 1

\* The run has ended; the comment c3, without evidence, and the comment c1,
\* met a second time with another body, were extracted once each.
C19_Witness ==
    /\ pc = "done" /\ Len(results) = 2
    /\ log = {}
    /\ extract_calls = <<"c3", "c1">>
    /\ RecordsOf("c3") = {} /\ RecordsOf("c1") = {1}
    /\ first_body["c1"] # last_body["c1"]

=============================================================================
